---- MODULE Spec2Model ----
(***************************************************************************)
(* Steam / YouTube feedback pipeline: incremental fetch with a per-entity  *)
(* high-water mark, idempotent persistence and batch enrichment.           *)
(*                                                                         *)
(* The Steam pipeline (run_fetcher, process_translations,                  *)
(* process_analysis) works on the tables tracked_apps and reviews; the     *)
(* YouTube pipeline (run_youtube_fetcher, run_youtube_analyzer) works on   *)
(* youtube_channels, youtube_videos and video_transcripts.  The two share  *)
(* no table and no in-memory state, so a behaviour is explored for one     *)
(* pipeline at a time (variable pipeline, fixed by Init).  The clients     *)
(* the pipelines call are explored the same way, each on its own.          *)
(***************************************************************************)
EXTENDS Integers, Sequences, FiniteSets, TLC

VARIABLES
    pipeline,                 \* the pipeline or component this behaviour runs
    published,                \* source: how many catalogue reviews Steam has published
    last_fetched_timestamp,   \* tracked_apps.last_fetched_timestamp of the app
    reviews,                  \* table reviews: recommendationid -> row or NoRow
    cycle,                    \* what the last run_fetcher iteration of the app did
    translation_cache,        \* Translator.translation_cache: the cached keys
    run,                      \* the enrichment job in progress (process_translations / process_analysis)
    batch_log,                \* per item of the current batch: what its worker did
    now,                      \* the clock of the YouTube pipeline (Unix time, scaled)
    channel_handle,           \* youtube_channels.handle of the channel
    last_checked_timestamp,   \* youtube_channels.last_checked_timestamp of the channel
    videos,                   \* table youtube_videos: id -> row or NoRow
    video_transcripts,        \* table video_transcripts: the video ids that have a row
    chan,                     \* the process_channel call in progress
    yrun,                     \* the run_youtube_analyzer call in progress
    api,                      \* the call_openai_api / acall_openai_api call in progress
    supa,                     \* the SupadataClient._request call in progress
    report,                   \* what the last report generation handed to its caller
    job,                      \* the control flow of the scheduled job entry point in progress
    race,                     \* two run_fetcher runs for the same app that overlap in time
    drain,                    \* the while-loop of process_translations / process_analysis
    sess                      \* the database sessions of a dispatcher and the workers of one batch

steamVars == <<published, last_fetched_timestamp, reviews, cycle,
               translation_cache, run, batch_log>>

youtubeVars == <<now, channel_handle, last_checked_timestamp, videos,
                 video_transcripts, chan, yrun>>

\* The components that are explored on their own.
auxVars == <<api, supa, report, job, race, drain, sess>>

vars == <<pipeline, steamVars, youtubeVars, auxVars>>

(***************************************************************************)
(* Bounds of the model.                                                    *)
(***************************************************************************)
NumReviews == 4     \* reviews the Steam source ever publishes
PageSize == 4       \* most reviews the source puts on one page (num_per_page, scaled)
BATCH_SIZE == 2     \* reviews pulled per batch (run_translator 50, run_analyzer 20, scaled)
MaxRounds == 3      \* batches one enrichment run is followed for
NumVideos == 2      \* videos the channel ever uploads
MaxNow == 3         \* last instant of the YouTube clock
MaxAgeTicks == 2    \* --max-age-days, in clock ticks
NumLanguages == 2   \* languages the reviews of a report window are written in
NumEntities == 2    \* tracked apps (channels) one fetcher run walks through
NumRuns == 2        \* run_fetcher runs that overlap in time

(***************************************************************************)
(* Values.                                                                 *)
(***************************************************************************)
NoneVal == "None"             \* Python None / SQL NULL
NoRow == [absent |-> TRUE]    \* no row with that primary key

Max(a, b) == IF a >= b THEN a ELSE b

ReviewIds == 1 .. NumReviews

(***************************************************************************)
(* The Steam source.  Review i is the i-th review ever written; the source *)
(* delivers newest first (filter=recent).  Timestamps are positive Unix    *)
(* times; review 1 carries "language": null, review 3 an empty text.       *)
(***************************************************************************)
Stamp(i) == 800 + 100 * i

Language(i) == IF i = 1 THEN NoneVal
               ELSE IF i % 3 = 2 THEN "english" ELSE "schinese"

ReviewText(i) == IF i = 3 THEN "" ELSE "text"

RECURSIVE NewestFirst(_)
NewestFirst(n) == IF n = 0 THEN <<>> ELSE <<n>> \o NewestFirst(n - 1)

\* The batch of reviews the source returns for the page-th request (1-based)
\* when it pages the newest-first list by per_page; <<>> past the end.
SourcePage(n, per_page, page) ==
    LET all == NewestFirst(n)
        lo  == (page - 1) * per_page + 1
        hi  == IF page * per_page < n THEN page * per_page ELSE n
    IN  IF lo > n THEN <<>> ELSE SubSeq(all, lo, hi)

\* The same test with < for <=: the review at the cutoff itself passes.
ReachedCutoffStrict(after_timestamp, review_timestamp) ==
    after_timestamp # 0 /\ review_timestamp < after_timestamp

\* SteamAPI.fetch_reviews, line 97: the timestamp cutoff test
\* (after_timestamp and review_timestamp <= after_timestamp).
ReachedCutoff(after_timestamp, review_timestamp) ==
    after_timestamp # 0 /\ review_timestamp <= after_timestamp

(***************************************************************************)
(* SteamAPI.fetch_reviews: the per-review loop of one page.                *)
(***************************************************************************)
RECURSIVE ScanBatch(_, _, _, _)
ScanBatch(batch, after_timestamp, new_reviews_in_batch, current_batch_latest_ts) ==
    IF batch = <<>>
    THEN [new |-> new_reviews_in_batch,
          latest |-> current_batch_latest_ts,
          stop_fetching |-> FALSE]
    ELSE LET review_timestamp == Stamp(Head(batch))
             latest == Max(current_batch_latest_ts, review_timestamp)
         IN  IF ReachedCutoff(after_timestamp, review_timestamp)
             THEN [new |-> new_reviews_in_batch,
                   latest |-> latest,
                   stop_fetching |-> TRUE]
             ELSE ScanBatch(Tail(batch), after_timestamp,
                            Append(new_reviews_in_batch, Head(batch)), latest)

(***************************************************************************)
(* SteamAPI.fetch_reviews: the page loop.  fail_at is the number of the    *)
(* request that fails (non-200, undecodable body, exception); 0 = none.    *)
(* Returns the new reviews, the highest timestamp seen, the number of      *)
(* requests made and whether the loop ended on a failed request.           *)
(***************************************************************************)
RECURSIVE FetchLoop(_, _, _, _, _, _, _)
FetchLoop(n, per_page, fail_at, after_timestamp, page, acc, latest_timestamp_in_batch) ==
    IF page = fail_at
    THEN [reviews |-> acc, highest |-> latest_timestamp_in_batch,
          requests |-> page, failed |-> TRUE]
    ELSE LET batch == SourcePage(n, per_page, page) IN
         IF batch = <<>>
         THEN [reviews |-> acc, highest |-> latest_timestamp_in_batch,
               requests |-> page, failed |-> FALSE]
         ELSE LET s == ScanBatch(batch, after_timestamp, <<>>, 0)
                  all == acc \o s.new
                  latest == Max(latest_timestamp_in_batch, s.latest)
              IN  IF s.stop_fetching
                  THEN [reviews |-> all, highest |-> latest,
                        requests |-> page, failed |-> FALSE]
                  ELSE FetchLoop(n, per_page, fail_at, after_timestamp,
                                 page + 1, all, latest)

fetch_reviews(n, per_page, fail_at, after_timestamp) ==
    FetchLoop(n, per_page, fail_at, after_timestamp, 1, <<>>, 0)

\* The same row with the English shortcut left out: every row waits for the translator.
InsertDictAlwaysPending(i) ==
    [recommendationid     |-> i,
     original_language    |-> Language(i),
     original_review_text |-> ReviewText(i),
     english_translation  |-> NoneVal,
     translation_status   |-> "pending",
     analysis_status      |-> "pending",
     analyzed_sentiment   |-> NoneVal,
     timestamp_created    |-> Stamp(i)]

(***************************************************************************)
(* run_fetcher: the row built for one fetched review (insert_dict).        *)
(***************************************************************************)
insert_dict(i) ==
    LET is_english == Language(i) = "english" IN
    [recommendationid     |-> i,
     original_language    |-> Language(i),
     original_review_text |-> ReviewText(i),
     english_translation  |-> IF is_english THEN ReviewText(i) ELSE NoneVal,
     translation_status   |-> IF is_english THEN "not_required" ELSE "pending",
     analysis_status      |-> "pending",
     analyzed_sentiment   |-> NoneVal,
     timestamp_created    |-> Stamp(i)]

\* NOT NULL columns of table reviews that insert_dict can leave NULL.
ViolatesConstraint(row) == row.original_language = NoneVal

(***************************************************************************)
(* The same INSERT with ON CONFLICT (recommendationid) DO UPDATE: a row    *)
(* that exists is overwritten with the fetched values.                     *)
(***************************************************************************)
AddReviewsBulkUpsert(db, reviews_data, db_ok) ==
    IF reviews_data = <<>>
    THEN [db |-> db, error |-> FALSE, raised |-> FALSE]
    ELSE IF ~db_ok \/ \E k \in 1 .. Len(reviews_data) : ViolatesConstraint(reviews_data[k])
    THEN [db |-> db, error |-> TRUE, raised |-> FALSE]
    ELSE LET ids == {reviews_data[k].recommendationid : k \in 1 .. Len(reviews_data)}
             last(i) == CHOOSE k \in 1 .. Len(reviews_data) :
                            /\ reviews_data[k].recommendationid = i
                            /\ \A j \in k + 1 .. Len(reviews_data) :
                                  reviews_data[j].recommendationid # i
         IN  [db |-> [i \in DOMAIN db |->
                         IF i \in ids THEN reviews_data[last(i)] ELSE db[i]],
              error |-> FALSE, raised |-> FALSE]

(***************************************************************************)
(* crud.add_reviews_bulk: one INSERT ... ON CONFLICT (recommendationid) DO *)
(* NOTHING for the whole list.  db_ok = FALSE is a failure of the session  *)
(* (connection lost, commit refused).  Any exception is logged and rolled  *)
(* back inside the function; raised tells whether it reaches the caller.   *)
(***************************************************************************)
add_reviews_bulk(db, reviews_data, db_ok) ==
    IF reviews_data = <<>>
    THEN [db |-> db, error |-> FALSE, raised |-> FALSE]
    ELSE IF ~db_ok \/ \E k \in 1 .. Len(reviews_data) : ViolatesConstraint(reviews_data[k])
    THEN [db |-> db, error |-> TRUE, raised |-> FALSE]
    ELSE LET ids == {reviews_data[k].recommendationid : k \in 1 .. Len(reviews_data)}
             first(i) == CHOOSE k \in 1 .. Len(reviews_data) :
                            /\ reviews_data[k].recommendationid = i
                            /\ \A j \in 1 .. k - 1 : reviews_data[j].recommendationid # i
         IN  [db |-> [i \in DOMAIN db |->
                         IF i \in ids /\ db[i] = NoRow
                         THEN reviews_data[first(i)] ELSE db[i]],
              error |-> FALSE, raised |-> FALSE]

(***************************************************************************)
(* crud.update_last_fetch_time: UPDATE tracked_apps SET                    *)
(* last_fetched_timestamp; a failure is logged and rolled back.            *)
(***************************************************************************)
update_last_fetch_time(stored, timestamp, db_ok) ==
    IF db_ok THEN timestamp ELSE stored

(***************************************************************************)
(* run_fetcher without its two guards (the continue on an empty result and *)
(* the test highest_ts_in_run > last_fetch): the mark is written with      *)
(* whatever fetch_reviews reported as highest.                             *)
(***************************************************************************)
StoreAndAdvanceUnguarded(db, stored, last_fetch, fetched, insert_ok, update_ok) ==
    LET reviews_to_insert ==
            [k \in 1 .. Len(fetched.reviews) |-> insert_dict(fetched.reviews[k])]
        ins == add_reviews_bulk(db, reviews_to_insert, insert_ok)
    IN  [db |-> ins.db,
         mark |-> update_last_fetch_time(stored, fetched.highest, update_ok),
         insert_error |-> ins.error, aborted |-> FALSE,
         wrote |-> update_ok, update_error |-> ~update_ok]

(***************************************************************************)
(* run_fetcher, steps 3.3 and 3.4 of one app's iteration: what is stored   *)
(* and what the mark becomes, given what fetch_reviews returned.           *)
(***************************************************************************)
StoreAndAdvance(db, stored, last_fetch, fetched, insert_ok, update_ok) ==
    IF fetched.reviews = <<>>
    THEN [db |-> db, mark |-> stored, insert_error |-> FALSE,
          aborted |-> FALSE, wrote |-> FALSE, update_error |-> FALSE]
    ELSE LET reviews_to_insert ==
                 [k \in 1 .. Len(fetched.reviews) |-> insert_dict(fetched.reviews[k])]
             ins == add_reviews_bulk(db, reviews_to_insert, insert_ok)
         IN  IF ins.raised
             THEN [db |-> ins.db, mark |-> stored, insert_error |-> ins.error,
                   aborted |-> TRUE, wrote |-> FALSE, update_error |-> FALSE]
             ELSE IF fetched.highest > last_fetch
             THEN [db |-> ins.db,
                   mark |-> update_last_fetch_time(stored, fetched.highest, update_ok),
                   insert_error |-> ins.error, aborted |-> FALSE,
                   wrote |-> update_ok, update_error |-> ~update_ok]
             ELSE [db |-> ins.db, mark |-> stored, insert_error |-> ins.error,
                   aborted |-> FALSE, wrote |-> FALSE, update_error |-> FALSE]

NoCycle ==
    [ran |-> FALSE, last_fetch |-> 0, per_page |-> 0, handed |-> <<>>,
     requests |-> 0, failed |-> FALSE, highest |-> 0, insert_error |-> FALSE,
     aborted |-> FALSE, wrote |-> FALSE, update_error |-> FALSE]

(***************************************************************************)
(* The source publishes one more review.                                   *)
(***************************************************************************)
PublishReview ==
    /\ pipeline = "steam"
    /\ run.pc = "idle" /\ ~cycle.ran
    /\ published < NumReviews
    /\ published' = published + 1
    /\ UNCHANGED <<pipeline, auxVars, youtubeVars, last_fetched_timestamp, reviews, cycle,
                   translation_cache, run, batch_log>>

(***************************************************************************)
(* run_fetcher: the iteration of the for-loop for the app.                 *)
(***************************************************************************)
RunFetcherApp ==
    /\ pipeline = "steam"
    /\ run.pc = "idle" /\ ~cycle.ran
    /\ \E per_page \in 1 .. PageSize, fail_at \in 0 .. NumReviews,
          insert_ok \in BOOLEAN, update_ok \in BOOLEAN :
         LET last_fetch == last_fetched_timestamp
             fetched == fetch_reviews(published, per_page, fail_at, last_fetch)
             out == StoreAndAdvance(reviews, last_fetched_timestamp, last_fetch,
                                    fetched, insert_ok, update_ok)
         IN  /\ reviews' = out.db
             /\ last_fetched_timestamp' = out.mark
             /\ cycle' = [ran |-> TRUE, last_fetch |-> last_fetch,
                          per_page |-> per_page,
                          handed |-> fetched.reviews, requests |-> fetched.requests,
                          failed |-> fetched.failed, highest |-> fetched.highest,
                          insert_error |-> out.insert_error, aborted |-> out.aborted,
                          wrote |-> out.wrote, update_error |-> out.update_error]
    /\ UNCHANGED <<pipeline, auxVars, youtubeVars, published, translation_cache, run, batch_log>>

(***************************************************************************)
(* The LLM endpoint, as call_openai_api sees it: it answers with text,     *)
(* answers with a refusal item, raises (timeout, connection, status        *)
(* error), or answers without any output text.                             *)
(***************************************************************************)
LLMOutcomes == {"answer", "refusal", "raise", "empty"}

AnswerText == "answer"
RefusalText == "[REFUSAL: policy]"

StartsWithRefusal(s) == s \in {RefusalText, "[REFUSAL: CONTENT_FILTERING]"}

\* Python truthiness of an Optional[str].
Truthy(s) == s # NoneVal /\ s # ""

\* not text or not text.strip()
IsBlank(text) == text \in {NoneVal, "", " "}

(***************************************************************************)
(* openai_client.call_openai_api.  keyword is the name under which the     *)
(* caller passes the messages: the function's parameter is prompt, so any  *)
(* other keyword lands in **kwargs and the call raises TypeError before    *)
(* the body runs.  Inside the body every exception is caught and None is   *)
(* returned.                                                               *)
(***************************************************************************)
call_openai_api(keyword, endpoint) ==
    IF keyword # "prompt" THEN [raised |-> TRUE, value |-> NoneVal, sent |-> FALSE]
    ELSE [raised |-> FALSE,
          value  |-> CASE endpoint = "answer"  -> AnswerText
                       [] endpoint = "refusal" -> RefusalText
                       [] OTHER                -> NoneVal,
          sent   |-> TRUE]

(***************************************************************************)
(* Translator.translate_review_text.  Returns the result, the cache        *)
(* afterwards and whether the LLM endpoint was called.                     *)
(***************************************************************************)
translate_review_text(text, original_language_code, cache, endpoint) ==
    LET cache_key == <<original_language_code, text>> IN
    IF IsBlank(text)
    THEN [result |-> "", cache |-> cache, called |-> FALSE, call_failed |-> FALSE]
    ELSE IF cache_key \in cache
    THEN [result |-> AnswerText, cache |-> cache, called |-> FALSE, call_failed |-> FALSE]
    ELSE LET r == call_openai_api("prompt", endpoint) IN
         IF r.raised
         THEN [result |-> NoneVal, cache |-> cache, called |-> r.sent, call_failed |-> TRUE]
         ELSE IF r.value # NoneVal /\ ~StartsWithRefusal(r.value)
         THEN [result |-> r.value, cache |-> cache \cup {cache_key},
               called |-> r.sent, call_failed |-> FALSE]
         ELSE IF Truthy(r.value) /\ StartsWithRefusal(r.value)
         THEN [result |-> r.value, cache |-> cache, called |-> r.sent, call_failed |-> FALSE]
         ELSE [result |-> NoneVal, cache |-> cache, called |-> r.sent,
               call_failed |-> endpoint = "raise"]

\* The same mapping with an item whose call gave nothing left for a later run.
TranslationStatusLeavesPending(translation_result) ==
    IF translation_result # NoneVal /\ ~StartsWithRefusal(translation_result)
    THEN "translated"
    ELSE IF Truthy(translation_result) /\ StartsWithRefusal(translation_result)
    THEN "skipped"
    ELSE "pending"

\* run_translator._process_single_translation, lines 56-60.
TranslationStatus(translation_result) ==
    IF translation_result # NoneVal /\ ~StartsWithRefusal(translation_result)
    THEN "translated"
    ELSE IF Truthy(translation_result) /\ StartsWithRefusal(translation_result)
    THEN "skipped"
    ELSE "failed"

(***************************************************************************)
(* crud.update_review_translation / crud.update_review_analysis: an UPDATE *)
(* of the row; a failure is logged and rolled back inside the function.    *)
(***************************************************************************)
update_review_translation(db, recommendation_id, translation, status, db_ok) ==
    IF db_ok /\ db[recommendation_id] # NoRow
    THEN [db EXCEPT ![recommendation_id].english_translation = translation,
                    ![recommendation_id].translation_status = status]
    ELSE db

update_review_analysis(db, recommendation_id, sentiment, status, db_ok) ==
    IF db_ok /\ db[recommendation_id] # NoRow
    THEN [db EXCEPT ![recommendation_id].analyzed_sentiment = sentiment,
                    ![recommendation_id].analysis_status = status]
    ELSE db

(***************************************************************************)
(* ReviewAnalyzer.analyze_review_text: the dict it returns, reduced to its *)
(* error key and the derived fields.  It passes the messages to            *)
(* call_openai_api under the keyword messages.                             *)
(***************************************************************************)
analyze_review_text(review_text, endpoint) ==
    IF IsBlank(review_text)
    THEN [error |-> "Input text is empty.", sentiment |-> NoneVal,
          called |-> FALSE, call_failed |-> FALSE]
    ELSE LET r == call_openai_api("messages", endpoint) IN
         IF r.raised
         THEN [error |-> "Exception during analysis", sentiment |-> NoneVal,
               called |-> r.sent, call_failed |-> TRUE]
         ELSE IF ~Truthy(r.value)
         THEN [error |-> "Analysis generation failed", sentiment |-> NoneVal,
               called |-> r.sent, call_failed |-> endpoint = "raise"]
         ELSE IF StartsWithRefusal(r.value)
         THEN [error |-> "Model refused analysis request", sentiment |-> NoneVal,
               called |-> r.sent, call_failed |-> FALSE]
         ELSE [error |-> NoneVal, sentiment |-> "Positive",
               called |-> r.sent, call_failed |-> FALSE]

\* The same mapping with a failed analysis put back in the queue.
AnalysisStatusRequeues(analysis_result_dict) ==
    IF analysis_result_dict.error = NoneVal THEN "analyzed"
    ELSE IF analysis_result_dict.error = "Model refused analysis request" THEN "skipped"
    ELSE "pending"

\* run_analyzer._process_single_analysis, lines 72-76.
AnalysisStatus(analysis_result_dict) ==
    IF analysis_result_dict.error = NoneVal THEN "analyzed"
    ELSE IF analysis_result_dict.error = "Model refused analysis request" THEN "skipped"
    ELSE "failed"

\* run_analyzer._process_single_analysis, lines 51-55.
TextToAnalyze(review) ==
    IF review.translation_status = "translated" /\ Truthy(review.english_translation)
    THEN review.english_translation
    ELSE IF review.original_language = "english"
    THEN review.original_review_text
    ELSE NoneVal

(***************************************************************************)
(* crud.get_reviews_needing_translation / get_reviews_needing_analysis:    *)
(* the rows the WHERE clause selects.                                      *)
(***************************************************************************)
get_reviews_needing_translation(db) ==
    {i \in DOMAIN db : /\ db[i] # NoRow
                       /\ db[i].translation_status = "pending"
                       /\ db[i].original_language # "english"}

\* The same query without the condition on translation_status.
GetAnyPendingAnalysis(db) ==
    {i \in DOMAIN db : db[i] # NoRow /\ db[i].analysis_status = "pending"}

get_reviews_needing_analysis(db) ==
    {i \in DOMAIN db : /\ db[i] # NoRow
                       /\ db[i].analysis_status = "pending"
                       /\ db[i].translation_status \in {"translated", "not_required"}}

Selectable(name, db) ==
    IF name = "translate" THEN get_reviews_needing_translation(db)
    ELSE get_reviews_needing_analysis(db)

\* .limit(limit).all(): any limit of the selected rows, all of them if fewer.
Limited(rows, limit) ==
    IF Cardinality(rows) <= limit THEN {rows}
    ELSE {b \in SUBSET rows : Cardinality(b) = limit}

NoRun ==
    [name |-> "none", pc |-> "idle", batch |-> {}, size |-> 0, rounds |-> 0,
     total_processed_count |-> 0, total_failed_count |-> 0, total_skipped_count |-> 0,
     faulted |-> FALSE]

NoLog == [i \in {} |-> 0]

\* The totals after one future's result (the as_completed loop).
Counted(r, status, done) ==
    [r EXCEPT !.total_processed_count = @ + (IF status = done THEN 1 ELSE 0),
              !.total_skipped_count = @ + (IF status = "skipped" THEN 1 ELSE 0),
              !.total_failed_count = @ + (IF status \notin {done, "skipped"} THEN 1 ELSE 0)]

(***************************************************************************)
(* process_translations / process_analysis start.                          *)
(***************************************************************************)
StartRun ==
    /\ pipeline = "steam"
    /\ run.pc = "idle" /\ ~cycle.ran
    /\ \E name \in {"translate", "analyze"} :
         run' = [NoRun EXCEPT !.name = name, !.pc = "query"]
    /\ batch_log' = NoLog
    /\ UNCHANGED <<pipeline, auxVars, youtubeVars, published, last_fetched_timestamp, reviews, cycle,
                   translation_cache>>

(***************************************************************************)
(* The head of the while-loop: pull the next batch; an empty batch (or a   *)
(* failed query, which the crud function turns into []) ends the loop.     *)
(***************************************************************************)
QueryBatch ==
    /\ pipeline = "steam"
    /\ run.pc = "query"
    /\ run.rounds < MaxRounds
    /\ \E query_ok \in BOOLEAN :
         LET rows == IF query_ok THEN Selectable(run.name, reviews) ELSE {} IN
         IF rows = {}
         THEN /\ run' = [run EXCEPT !.pc = "done", !.batch = {}, !.size = 0,
                                    !.faulted = @ \/ ~query_ok]
              /\ batch_log' = NoLog
         ELSE \E b \in Limited(rows, BATCH_SIZE) :
                /\ run' = [run EXCEPT !.pc = "work", !.batch = b,
                                      !.size = Cardinality(b), !.rounds = @ + 1]
                /\ batch_log' = NoLog
    /\ UNCHANGED <<pipeline, auxVars, youtubeVars, published, last_fetched_timestamp, reviews, cycle,
                   translation_cache>>

(***************************************************************************)
(* run_translator._process_single_translation for one review of the batch, *)
(* and the handling of its future's result.                                *)
(***************************************************************************)
TranslateItem ==
    /\ pipeline = "steam"
    /\ run.pc = "work" /\ run.name = "translate"
    /\ \E i \in run.batch, endpoint \in LLMOutcomes, db_ok \in BOOLEAN :
         LET review == reviews[i]
             t == translate_review_text(review.original_review_text,
                                        review.original_language,
                                        translation_cache, endpoint)
             status == TranslationStatus(t.result)
         IN  /\ reviews' = update_review_translation(reviews, i, t.result, status, db_ok)
             /\ translation_cache' = t.cache
             /\ run' = [Counted(run, status, "translated") EXCEPT !.batch = @ \ {i},
                                                               !.faulted = @ \/ ~db_ok]
             /\ batch_log' = [j \in DOMAIN batch_log \cup {i} |->
                                IF j = i
                                THEN [status |-> status, called |-> t.called,
                                      call_failed |-> t.call_failed, db_ok |-> db_ok,
                                      refused |-> t.called /\ endpoint = "refusal",
                                      answered |-> t.called /\ endpoint = "answer",
                                      submitted |-> NoneVal]
                                ELSE batch_log[j]]
    /\ UNCHANGED <<pipeline, auxVars, youtubeVars, published, last_fetched_timestamp, cycle>>

(***************************************************************************)
(* run_analyzer._process_single_analysis for one review of the batch, and  *)
(* the handling of its future's result.                                    *)
(***************************************************************************)
AnalyzeItem ==
    /\ pipeline = "steam"
    /\ run.pc = "work" /\ run.name = "analyze"
    /\ \E i \in run.batch, endpoint \in LLMOutcomes, db_ok \in BOOLEAN :
         LET review == reviews[i]
             text_to_analyze == TextToAnalyze(review)
             a == IF IsBlank(text_to_analyze)
                  THEN [error |-> "No text available", sentiment |-> NoneVal,
                        called |-> FALSE, call_failed |-> FALSE]
                  ELSE analyze_review_text(text_to_analyze, endpoint)
             status == IF IsBlank(text_to_analyze) THEN "failed" ELSE AnalysisStatus(a)
         IN  /\ reviews' = update_review_analysis(reviews, i, a.sentiment, status, db_ok)
             /\ run' = [Counted(run, status, "analyzed") EXCEPT !.batch = @ \ {i},
                                                             !.faulted = @ \/ ~db_ok]
             /\ batch_log' = [j \in DOMAIN batch_log \cup {i} |->
                                IF j = i
                                THEN [status |-> status, called |-> a.called,
                                      call_failed |-> a.call_failed, db_ok |-> db_ok,
                                      refused |-> ~IsBlank(text_to_analyze)
                                                  /\ endpoint = "refusal",
                                      answered |-> ~IsBlank(text_to_analyze)
                                                   /\ endpoint = "answer",
                                      submitted |-> IF IsBlank(text_to_analyze)
                                                    THEN NoneVal ELSE text_to_analyze]
                                ELSE batch_log[j]]
    /\ UNCHANGED <<pipeline, auxVars, youtubeVars, published, last_fetched_timestamp, cycle,
                   translation_cache>>

\* A loop that stops after its first batch, whatever the size of the batch.
AnyBatchIsLast(size) == TRUE

\* if len(reviews_to_translate) < BATCH_SIZE: break
PartialBatch(size) == size < BATCH_SIZE

(***************************************************************************)
(* The foot of the while-loop: a partial batch ends the run, a full batch  *)
(* goes back to the query.                                                 *)
(***************************************************************************)
EndBatch ==
    /\ pipeline = "steam"
    /\ run.pc = "work" /\ run.batch = {}
    /\ run' = [run EXCEPT !.pc = IF PartialBatch(run.size) THEN "done" ELSE "query"]
    /\ UNCHANGED <<pipeline, auxVars, youtubeVars, published, last_fetched_timestamp, reviews, cycle,
                   translation_cache, batch_log>>

(***************************************************************************)
(* run_fetcher returns: its locals are gone.                               *)
(***************************************************************************)
FetcherReturn ==
    /\ pipeline = "steam"
    /\ cycle.ran
    /\ cycle' = NoCycle
    /\ UNCHANGED <<pipeline, auxVars, youtubeVars, published, last_fetched_timestamp, reviews,
                   translation_cache, run, batch_log>>

(***************************************************************************)
(* process_translations / process_analysis returns after logging its       *)
(* totals: its locals are gone.                                            *)
(***************************************************************************)
RunReturn ==
    /\ pipeline = "steam"
    /\ run.pc = "done"
    /\ run' = NoRun
    /\ batch_log' = NoLog
    /\ UNCHANGED <<pipeline, auxVars, youtubeVars, published, last_fetched_timestamp, reviews, cycle,
                   translation_cache>>

(***************************************************************************)
(* The YouTube source.  Video v is uploaded at instant Upload(v) and can   *)
(* be listed from then on.                                                 *)
(***************************************************************************)
VideoIds == 1 .. NumVideos

Upload(v) == v

Listable(t) == {v \in VideoIds : Upload(v) <= t}

RECURSIVE SetMax(_)
SetMax(S) == IF S = {} THEN 0
             ELSE LET x == CHOOSE x \in S : TRUE IN Max(x, SetMax(S \ {x}))

(***************************************************************************)
(* crud_youtube.get_latest_video_upload_timestamp_for_channel: max of      *)
(* upload_date over the channel's stored videos, None when there is none   *)
(* (the caller turns None into 0).                                         *)
(***************************************************************************)
get_latest_video_upload_timestamp_for_channel(db) ==
    SetMax({db[v].upload_date : v \in {w \in DOMAIN db : db[w] # NoRow}})

(***************************************************************************)
(* crud_youtube.update_channel_timestamp: a failure is rolled back and     *)
(* answered with False.                                                    *)
(***************************************************************************)
update_channel_timestamp(stored, timestamp, db_ok) ==
    IF db_ok THEN timestamp ELSE stored

(***************************************************************************)
(* crud_youtube.add_video: INSERT of a pending row.  A duplicate id is an  *)
(* IntegrityError: rolled back, the existing row is returned.  Any other   *)
(* database error: rolled back, None is returned.                          *)
(***************************************************************************)
add_video(db, video_id, upload_date, db_ok) ==
    IF db[video_id] # NoRow
    THEN [db |-> db, added |-> TRUE]
    ELSE IF ~db_ok
    THEN [db |-> db, added |-> FALSE]
    ELSE [db |-> [db EXCEPT ![video_id] =
                     [upload_date |-> upload_date,
                      transcript_status |-> "pending",
                      analysis_status |-> "pending"]],
          added |-> TRUE]

\* crud_youtube.update_video_transcript_status / update_video_analysis_status.
update_video_transcript_status(db, video_id, status, db_ok) ==
    IF db_ok /\ db[video_id] # NoRow
    THEN [db EXCEPT ![video_id].transcript_status = status]
    ELSE db

update_video_analysis_status(db, video_id, status, db_ok) ==
    IF db_ok /\ db[video_id] # NoRow
    THEN [db EXCEPT ![video_id].analysis_status = status]
    ELSE db

(***************************************************************************)
(* crud_youtube.add_transcript: INSERT of the transcript row, then the     *)
(* video's status becomes fetched; on a database error the status becomes  *)
(* failed and None is returned.  insert_ok / status_ok: the INSERT and the *)
(* status UPDATE succeed.                                                  *)
(***************************************************************************)
add_transcript(db, transcripts, video_id, insert_ok, status_ok) ==
    IF video_id \in transcripts
    THEN [db |-> db, transcripts |-> transcripts, added |-> TRUE]
    ELSE IF insert_ok
    THEN [db |-> update_video_transcript_status(db, video_id, "fetched", status_ok),
          transcripts |-> transcripts \cup {video_id}, added |-> TRUE]
    ELSE [db |-> update_video_transcript_status(db, video_id, "failed", status_ok),
          transcripts |-> transcripts, added |-> FALSE]

MetadataOutcomes == {"ok", "none", "nodate"}
TranscriptOutcomes == {"text", "UNAVAILABLE", "none"}

(***************************************************************************)
(* youtube_fetcher._process_single_video: the worker of one video id.      *)
(* Returns the tables afterwards and the fields of the result dict that    *)
(* process_channel reads.                                                  *)
(***************************************************************************)
ProcessSingleVideo(db, transcripts, video_id, effective_cutoff_ts, metadata, transcript, add_ok, insert_ok, status_ok) ==
    IF db[video_id] # NoRow
    THEN [db |-> db, transcripts |-> transcripts, status |-> "skipped",
          new_video_added |-> FALSE, upload_timestamp |-> db[video_id].upload_date]
    ELSE IF metadata = "none"
    THEN [db |-> db, transcripts |-> transcripts, status |-> "metadata_failed",
          new_video_added |-> FALSE, upload_timestamp |-> 0]
    ELSE LET upload_date_ts == IF metadata = "ok" THEN Upload(video_id) ELSE 0 IN
         IF upload_date_ts <= effective_cutoff_ts
         THEN [db |-> db, transcripts |-> transcripts,
               status |-> "skipped_older_than_effective_cutoff",
               new_video_added |-> FALSE, upload_timestamp |-> upload_date_ts]
         ELSE LET a == add_video(db, video_id, upload_date_ts, add_ok) IN
              IF ~a.added
              THEN [db |-> a.db, transcripts |-> transcripts, status |-> "db_add_failed",
                    new_video_added |-> TRUE, upload_timestamp |-> upload_date_ts]
              ELSE IF transcript = "UNAVAILABLE"
              THEN [db |-> update_video_transcript_status(a.db, video_id,
                                                          "unavailable", status_ok),
                    transcripts |-> transcripts, status |-> "transcript_unavailable",
                    new_video_added |-> TRUE, upload_timestamp |-> upload_date_ts]
              ELSE IF transcript = "text"
              THEN LET t == add_transcript(a.db, transcripts, video_id,
                                           insert_ok, status_ok)
                   IN  [db |-> t.db, transcripts |-> t.transcripts,
                        status |-> IF t.added THEN "transcript_fetched"
                                   ELSE "transcript_failed",
                        new_video_added |-> TRUE, upload_timestamp |-> upload_date_ts]
              ELSE [db |-> update_video_transcript_status(a.db, video_id,
                                                          "failed", status_ok),
                    transcripts |-> transcripts, status |-> "transcript_failed",
                    new_video_added |-> TRUE, upload_timestamp |-> upload_date_ts]

NoChan ==
    [pc |-> "idle", pending |-> {}, true_latest |-> 0,
     effective_cutoff_ts |-> 0, highest |-> 0,
     forced_now |-> FALSE, wrote |-> FALSE,
     metadata_failed |-> {}, missed |-> {}]

NoYRun == [pc |-> "idle", batch |-> {}, refused |-> {}]

(***************************************************************************)
(* The clock advances between jobs.                                        *)
(***************************************************************************)
Tick ==
    /\ pipeline = "youtube"
    /\ chan.pc = "idle" /\ yrun.pc = "idle"
    /\ now < MaxNow
    /\ now' = now + 1
    /\ UNCHANGED <<pipeline, auxVars, steamVars, channel_handle, last_checked_timestamp,
                   videos, video_transcripts, chan, yrun>>

(***************************************************************************)
(* process_channel up to the submission of the workers: the cutoff, the    *)
(* handle check and get_channel_videos.  A missing handle, a failed        *)
(* listing (None) and an empty listing set the timestamp to now.           *)
(***************************************************************************)
ProcessChannelStart ==
    /\ pipeline = "youtube"
    /\ chan.pc = "idle" /\ yrun.pc = "idle"
    /\ LET true_latest == get_latest_video_upload_timestamp_for_channel(videos)
           safety_cutoff == now - MaxAgeTicks
           effective_cutoff_ts == Max(true_latest, safety_cutoff)
           started == [NoChan EXCEPT !.true_latest = true_latest,
                                     !.effective_cutoff_ts = effective_cutoff_ts,
                                     !.missed = chan.missed]
       IN  \E listing_ok \in BOOLEAN, listing \in SUBSET Listable(now),
              db_ok \in BOOLEAN :
             IF channel_handle = NoneVal \/ ~listing_ok \/ listing = {}
             THEN /\ last_checked_timestamp' =
                         update_channel_timestamp(last_checked_timestamp, now, db_ok)
                  /\ chan' = [started EXCEPT !.pc = "finished", !.forced_now = TRUE,
                                             !.wrote = db_ok]
             ELSE /\ UNCHANGED last_checked_timestamp
                  /\ chan' = [started EXCEPT !.pc = "videos", !.pending = listing]
    /\ UNCHANGED <<pipeline, auxVars, steamVars, now, channel_handle, videos,
                   video_transcripts, yrun>>

(***************************************************************************)
(* One worker thread (_process_single_video) runs and process_channel      *)
(* takes its result from as_completed.  The outcome of a step the worker   *)
(* does not reach is not an input: it is fixed.                            *)
(***************************************************************************)
ProcessVideo ==
    /\ pipeline = "youtube"
    /\ chan.pc = "videos"
    /\ \E v \in chan.pending :
       \E metadata \in IF videos[v] = NoRow THEN MetadataOutcomes ELSE {"ok"} :
       LET adds == /\ videos[v] = NoRow
                   /\ metadata = "ok"
                   /\ Upload(v) > chan.effective_cutoff_ts
       IN
       \E add_ok \in IF adds THEN BOOLEAN ELSE {TRUE} :
       \E transcript \in IF adds /\ add_ok THEN TranscriptOutcomes ELSE {"none"},
          status_ok \in IF adds /\ add_ok THEN BOOLEAN ELSE {TRUE} :
       \E insert_ok \in IF adds /\ add_ok /\ transcript = "text"
                        THEN BOOLEAN ELSE {TRUE} :
         LET r == ProcessSingleVideo(videos, video_transcripts, v,
                                     chan.effective_cutoff_ts, metadata, transcript,
                                     add_ok, insert_ok, status_ok)
         IN  /\ videos' = r.db
             /\ video_transcripts' = r.transcripts
             /\ chan' = [chan EXCEPT
                            !.pending = @ \ {v},
                            !.highest =
                                IF r.new_video_added
                                THEN Max(@, r.upload_timestamp) ELSE @,
                            !.metadata_failed =
                                IF /\ videos[v] = NoRow /\ metadata = "none"
                                   /\ Upload(v) > chan.effective_cutoff_ts
                                THEN @ \cup {v} ELSE @]
    /\ UNCHANGED <<pipeline, auxVars, steamVars, now, channel_handle,
                   last_checked_timestamp, yrun>>

\* The same foot with the write made whether or not a video was added.
ChannelTimestampAlways(stored, highest, true_latest, db_ok) ==
    update_channel_timestamp(stored, highest, db_ok)

\* process_channel, lines 242-251: the timestamp after the workers.
ChannelTimestampAfter(stored, highest, true_latest, db_ok) ==
    IF highest > true_latest
    THEN update_channel_timestamp(stored, highest, db_ok)
    ELSE stored

(***************************************************************************)
(* process_channel after all workers completed.                            *)
(***************************************************************************)
ProcessChannelFinish ==
    /\ pipeline = "youtube"
    /\ chan.pc = "videos" /\ chan.pending = {}
    /\ \E db_ok \in BOOLEAN :
         /\ last_checked_timestamp' =
                ChannelTimestampAfter(last_checked_timestamp, chan.highest,
                                      chan.true_latest, db_ok)
         /\ chan' = [chan EXCEPT !.pc = "finished",
                                 !.wrote = db_ok /\ chan.highest > chan.true_latest,
                                 !.missed = @ \cup {v \in chan.metadata_failed :
                                                       chan.highest > Upload(v)}]
    /\ UNCHANGED <<pipeline, auxVars, steamVars, now, channel_handle, videos,
                   video_transcripts, yrun>>

\* process_channel returns: its locals are gone.  missed is the record, kept
\* across cycles, of the videos whose "Could not fetch metadata" warning was
\* logged in a cycle that added a newer video.
ProcessChannelReturn ==
    /\ pipeline = "youtube"
    /\ chan.pc = "finished"
    /\ chan' = [NoChan EXCEPT !.missed = chan.missed]
    /\ UNCHANGED <<pipeline, auxVars, steamVars, now, channel_handle,
                   last_checked_timestamp, videos, video_transcripts, yrun>>

(***************************************************************************)
(* YouTubeFeedbackAnalyzer.analyze_video_transcript: the dict it returns,  *)
(* NoDict (None) for every failure.  It passes the messages to call_openai_api      *)
(* under the keyword messages.                                             *)
(***************************************************************************)
NoDict == [none |-> TRUE]

analyze_video_transcript(endpoint, relevant) ==
    LET r == call_openai_api("messages", endpoint) IN
    IF r.raised THEN NoDict
    ELSE IF ~Truthy(r.value) THEN NoDict
    ELSE IF r.value = "[REFUSAL: CONTENT_FILTERING]" THEN NoDict
    ELSE IF r.value = RefusalText THEN NoDict
    ELSE [is_relevant |-> relevant]

(***************************************************************************)
(* crud_youtube.add_or_update_analysis: stores the analysis row and sets   *)
(* the video's status to analyzed or irrelevant; on a database error the   *)
(* status becomes failed.                                                  *)
(***************************************************************************)
add_or_update_analysis(db, video_id, analysis_data, store_ok, status_ok) ==
    IF store_ok
    THEN update_video_analysis_status(db, video_id,
             IF analysis_data.is_relevant THEN "analyzed" ELSE "irrelevant", status_ok)
    ELSE update_video_analysis_status(db, video_id, "failed", status_ok)

\* crud_youtube.get_videos_for_analysis: the rows the query selects.
get_videos_for_analysis(db, transcripts) ==
    {v \in DOMAIN db : /\ db[v] # NoRow
                       /\ v \in transcripts
                       /\ db[v].transcript_status = "fetched"
                       /\ db[v].analysis_status = "pending"}

(***************************************************************************)
(* run_youtube_analyzer: the query for the batch.                          *)
(***************************************************************************)
YoutubeAnalyzerStart ==
    /\ pipeline = "youtube"
    /\ chan.pc = "idle" /\ yrun.pc = "idle"
    /\ yrun' = [pc |-> "work", refused |-> {},
                batch |-> get_videos_for_analysis(videos, video_transcripts)]
    /\ UNCHANGED <<pipeline, auxVars, steamVars, now, channel_handle,
                   last_checked_timestamp, videos, video_transcripts, chan>>

(***************************************************************************)
(* run_youtube_analyzer: one iteration of the for-loop (the batch is       *)
(* walked in the order of the list, here by id).                           *)
(***************************************************************************)
YoutubeAnalyzeVideo ==
    /\ pipeline = "youtube"
    /\ yrun.pc = "work" /\ yrun.batch # {}
    /\ LET v == CHOOSE w \in yrun.batch : \A u \in yrun.batch : w <= u IN
       \E game_name \in {"game", NoneVal}, status_ok \in BOOLEAN :
       \E endpoint \in IF game_name = NoneVal THEN {"answer"} ELSE LLMOutcomes :
       \E relevant \in IF endpoint = "answer" /\ game_name # NoneVal
                       THEN BOOLEAN ELSE {TRUE},
          store_ok \in IF endpoint = "answer" /\ game_name # NoneVal
                       THEN BOOLEAN ELSE {TRUE} :
         /\ videos' =
              IF v \notin video_transcripts \/ game_name = NoneVal
              THEN update_video_analysis_status(videos, v, "failed", status_ok)
              ELSE LET analysis_result_dict == analyze_video_transcript(endpoint, relevant)
                   IN  IF analysis_result_dict # NoDict
                       THEN add_or_update_analysis(videos, v, analysis_result_dict,
                                                   store_ok, status_ok)
                       ELSE update_video_analysis_status(videos, v, "failed", status_ok)
         /\ yrun' = [yrun EXCEPT !.batch = @ \ {v},
                                 !.refused = IF /\ v \in video_transcripts
                                                /\ game_name # NoneVal
                                                /\ endpoint = "refusal"
                                             THEN @ \cup {v} ELSE @]
    /\ UNCHANGED <<pipeline, auxVars, steamVars, now, channel_handle,
                   last_checked_timestamp, video_transcripts, chan>>

\* run_youtube_analyzer returns.
YoutubeAnalyzerReturn ==
    /\ pipeline = "youtube"
    /\ yrun.pc = "work" /\ yrun.batch = {}
    /\ yrun' = NoYRun
    /\ UNCHANGED <<pipeline, auxVars, steamVars, now, channel_handle,
                   last_checked_timestamp, videos, video_transcripts, chan>>

(***************************************************************************)
(* openai_client: one call of call_openai_api or acall_openai_api under    *)
(* the tenacity decorator.  ServiceOutcomes are the ways one               *)
(* client.responses.create(...) can end: three kinds of reply and the      *)
(* exceptions of the OpenAI library.                                       *)
(***************************************************************************)
ServiceErrors == {"APITimeoutError", "APIConnectionError", "RateLimitError",
                  "APIStatusError5xx", "APIStatusError4xx"}

ServiceOutcomes == {"text", "refusal", "empty"} \cup ServiceErrors

\* The body of call_openai_api: every exception of the request is caught
\* inside the function, which then returns None.
call_openai_api_body(outcome) ==
    IF outcome = "text" THEN [raised |-> NoneVal, value |-> AnswerText]
    ELSE IF outcome = "refusal" THEN [raised |-> NoneVal, value |-> RefusalText]
    ELSE IF outcome = "empty" THEN [raised |-> NoneVal, value |-> NoneVal]
    ELSE IF outcome \in {"APIStatusError5xx", "APIStatusError4xx", "RateLimitError"}
    THEN [raised |-> NoneVal, value |-> NoneVal]
    ELSE [raised |-> NoneVal, value |-> NoneVal]

\* The body of acall_openai_api: the same statements around an awaited request.
acall_openai_api_body(outcome) ==
    IF outcome = "text" THEN [raised |-> NoneVal, value |-> AnswerText]
    ELSE IF outcome = "refusal" THEN [raised |-> NoneVal, value |-> RefusalText]
    ELSE IF outcome = "empty" THEN [raised |-> NoneVal, value |-> NoneVal]
    ELSE IF outcome \in {"APIStatusError5xx", "APIStatusError4xx", "RateLimitError"}
    THEN [raised |-> NoneVal, value |-> NoneVal]
    ELSE [raised |-> NoneVal, value |-> NoneVal]

\* retry_if_exception_type(RETRYABLE_EXCEPTIONS): isinstance against the
\* tuple; an exception that matches none of the three classes reaches the
\* lambda, which is not a class, and isinstance raises TypeError.
retry_if_exception_type(exception) ==
    IF exception \in {"APITimeoutError", "APIConnectionError", "RateLimitError"}
    THEN "retry"
    ELSE "TypeError"

\* stop_after_attempt(3).
stop_after_attempt == 3

NoApi == [pc |-> "idle", fn |-> "none", attempt_number |-> 0, outcomes |-> <<>>,
          value |-> NoneVal, raised |-> NoneVal]

\* A caller invokes one of the two functions with a well-formed prompt.
ApiCall ==
    /\ pipeline = "openai"
    /\ api.pc = "idle"
    /\ \E fn \in {"call_openai_api", "acall_openai_api"} :
         api' = [NoApi EXCEPT !.pc = "attempt", !.fn = fn, !.attempt_number = 1]
    /\ UNCHANGED <<pipeline, steamVars, youtubeVars, supa, report, job, race, drain, sess>>

(***************************************************************************)
(* One attempt of the tenacity loop: the body runs once (one request);     *)
(* when it raises, the retry predicate and the stop condition decide       *)
(* between another attempt and giving up; when it returns, the call ends.  *)
(***************************************************************************)
ApiAttempt ==
    /\ pipeline = "openai"
    /\ api.pc = "attempt"
    /\ \E outcome \in ServiceOutcomes :
         LET r == IF api.fn = "call_openai_api" THEN call_openai_api_body(outcome)
                  ELSE acall_openai_api_body(outcome)
             seen == Append(api.outcomes, outcome)
         IN  IF r.raised = NoneVal
             THEN api' = [api EXCEPT !.pc = "done", !.outcomes = seen, !.value = r.value]
             ELSE IF retry_if_exception_type(r.raised) = "TypeError"
             THEN api' = [api EXCEPT !.pc = "done", !.outcomes = seen,
                                     !.raised = "TypeError"]
             ELSE IF api.attempt_number >= stop_after_attempt
             THEN api' = [api EXCEPT !.pc = "done", !.outcomes = seen,
                                     !.raised = "RetryError"]
             ELSE api' = [api EXCEPT !.attempt_number = @ + 1, !.outcomes = seen]
    /\ UNCHANGED <<pipeline, steamVars, youtubeVars, supa, report, job, race, drain, sess>>

\* The call has returned to its caller.
ApiReturn ==
    /\ pipeline = "openai"
    /\ api.pc = "done"
    /\ api' = NoApi
    /\ UNCHANGED <<pipeline, steamVars, youtubeVars, supa, report, job, race, drain, sess>>

(***************************************************************************)
(* SupadataClient._request: the for-loop over range(MAX_RETRIES + 1).      *)
(* HttpOutcomes are the ways one requests.request(...) and the reading of  *)
(* its response can end.                                                   *)
(***************************************************************************)
MAX_RETRIES == 3

HttpOutcomes == {"json", "204", "no_content", "bad_json", "429", "4xx", "5xx",
                 "RequestException"}

\* What one pass of the loop body does with the outcome of its request:
\* "return" leaves the function, "continue" goes to the next attempt.  A
\* body that is not JSON raises json.JSONDecodeError, which in some versions
\* of the requests library is a RequestException as well and is then caught
\* by the earlier except clause (json_is_request_exception).
RequestAttempt(outcome, attempt, json_is_request_exception) ==
    IF outcome = "json" THEN [step |-> "return", value |-> "data"]
    ELSE IF outcome \in {"204", "no_content"} THEN [step |-> "return", value |-> NoneVal]
    ELSE IF outcome = "5xx"
    THEN IF attempt < MAX_RETRIES THEN [step |-> "continue", value |-> NoneVal]
         ELSE [step |-> "return", value |-> NoneVal]
    ELSE IF outcome \in {"429", "4xx"} THEN [step |-> "return", value |-> NoneVal]
    ELSE IF outcome = "RequestException"
            \/ (outcome = "bad_json" /\ json_is_request_exception)
    THEN IF attempt < MAX_RETRIES THEN [step |-> "continue", value |-> NoneVal]
         ELSE [step |-> "return", value |-> NoneVal]
    ELSE [step |-> "return", value |-> NoneVal]

NoSupa == [pc |-> "idle", attempt |-> 0, outcomes |-> <<>>, value |-> NoneVal]

\* _request is called; without an API key it returns None at once.
SupadataRequest ==
    /\ pipeline = "supadata"
    /\ supa.pc = "idle"
    /\ \E api_key \in BOOLEAN :
         supa' = [NoSupa EXCEPT !.pc = IF api_key THEN "attempt" ELSE "done"]
    /\ UNCHANGED <<pipeline, steamVars, youtubeVars, api, report, job, race, drain, sess>>

\* One pass of the for-loop.
SupadataAttempt ==
    /\ pipeline = "supadata"
    /\ supa.pc = "attempt"
    /\ \E outcome \in HttpOutcomes :
       \E json_is_request_exception \in IF outcome = "bad_json" THEN BOOLEAN ELSE {FALSE} :
         LET r == RequestAttempt(outcome, supa.attempt, json_is_request_exception)
             seen == Append(supa.outcomes, outcome)
         IN  IF r.step = "continue"
             THEN supa' = [supa EXCEPT !.attempt = @ + 1, !.outcomes = seen]
             ELSE supa' = [supa EXCEPT !.pc = "done", !.outcomes = seen,
                                       !.value = r.value]
    /\ UNCHANGED <<pipeline, steamVars, youtubeVars, api, report, job, race, drain, sess>>

\* _request has returned to its caller.
SupadataReturn ==
    /\ pipeline = "supadata"
    /\ supa.pc = "done"
    /\ supa' = NoSupa
    /\ UNCHANGED <<pipeline, steamVars, youtubeVars, api, report, job, race, drain, sess>>

(***************************************************************************)
(* reporting.excel_generator.  The reviews of the window are seen through  *)
(* their language groups: distinct_languages is the list the query         *)
(* returns, and each group is "both" (its texts enter the group's summary  *)
(* and the overall summary: valid translations, or English originals),     *)
(* "own" (untranslated originals of another language: the group's summary  *)
(* only) or "none" (no usable text).                                       *)
(***************************************************************************)
LanguageCodes == <<"english", "schinese", "koreana", "german">>

Languages == {LanguageCodes[i] : i \in 1 .. NumLanguages}

\* The lists of distinct languages a query can return.
LanguageLists ==
    {q \in UNION {[1 .. n -> Languages] : n \in 0 .. NumLanguages} :
        \A i, j \in DOMAIN q : i # j => q[i] # q[j]}

GroupKinds == {"none", "own", "both"}

\* results[task_index] of a Python list: a negative index counts from the end.
PyIndex(list, index) ==
    IF index >= 0 THEN list[index + 1] ELSE list[Len(list) + index + 1]

\* language_data_map[lang_code]['task_index'] = len(tasks) - 1, evaluated
\* before the group's task is appended.
TaskIndex(tasks) == Len(tasks) - 1

\* _generate_single_summary: the dict of one task, by the context it was
\* built for; every failure inside it ends in a dict with an error key.
generate_single_summary(context, answered) ==
    [context |-> context, error |-> ~answered, task |-> TRUE]

\* A summary_result that was set without running a task.
NoTextResult(context) == [context |-> context, error |-> TRUE, task |-> FALSE]

(***************************************************************************)
(* The loop "for lang_code in distinct_languages" of step 2: the tasks     *)
(* (named by their context) and language_data_map after it.                *)
(***************************************************************************)
RECURSIVE PrepareLanguageTasks(_, _, _, _)
PrepareLanguageTasks(distinct_languages, kind, tasks, language_data_map) ==
    IF distinct_languages = <<>>
    THEN [tasks |-> tasks, language_data_map |-> language_data_map]
    ELSE LET lang_code == Head(distinct_languages)
             entry == [task_index |-> TaskIndex(tasks),
                       summary_result |-> NoTextResult(lang_code)]
             extended == [l \in DOMAIN language_data_map \cup {lang_code} |->
                            IF l = lang_code THEN entry ELSE language_data_map[l]]
         IN  PrepareLanguageTasks(Tail(distinct_languages), kind,
                 IF kind[lang_code] # "none" THEN Append(tasks, lang_code) ELSE tasks,
                 extended)

\* No summary_result; no language_data_map.
NoSummary == [context |-> "none", error |-> FALSE, task |-> FALSE]

NoMap == [l \in {} |-> NoSummary]

NoReport ==
    [pc |-> "idle", generator |-> "none", returned |-> NoneVal, raised |-> FALSE,
     sheets |-> {}, messages |-> 0, llm_calls |-> 0, fault |-> "none",
     empty_window |-> FALSE, tasks |-> <<>>, rows |-> NoMap, total |-> NoSummary,
     counts |-> FALSE, uploaded |-> FALSE]

\* A workbook without any sheet.
EmptyWorkbook(generator) ==
    [NoReport EXCEPT !.generator = generator, !.returned = "workbook",
                     !.empty_window = TRUE]

\* The report for a window without items: one sheet "Status" whose only row
\* is the no-data message.
StatusWorkbook(generator) ==
    [NoReport EXCEPT !.generator = generator, !.returned = "workbook",
                     !.sheets = {"Status"}, !.messages = 1,
                     !.empty_window = TRUE]

(***************************************************************************)
(* generate_summary_report(app_id, start_timestamp): what it returns.      *)
(* reviews_found: the query returned rows; answered: for every task, in    *)
(* the order of the task list, whether its LLM call gave a valid summary;  *)
(* fault: where an exception is raised inside the try block, if anywhere.  *)
(***************************************************************************)
generate_summary_report(reviews_found, distinct_languages, kind, answered, fault) ==
    IF ~reviews_found
    THEN StatusWorkbook("steam")
    ELSE IF fault = "schema"
    THEN [NoReport EXCEPT !.generator = "steam", !.returned = "workbook",
                          !.sheets = {"Error"}, !.messages = 1, !.fault = fault]
    ELSE
    LET prepared == PrepareLanguageTasks(distinct_languages, kind, <<>>, NoMap)
        overall_text == \E l \in DOMAIN prepared.language_data_map : kind[l] = "both"
        tasks == IF overall_text THEN Append(prepared.tasks, "overall")
                 ELSE prepared.tasks
        overall_task_index == IF overall_text THEN Len(tasks) - 1 ELSE -1
        results == [t \in 1 .. Len(tasks) |->
                       generate_single_summary(tasks[t], answered[t])]
        language_data_map ==
            [l \in DOMAIN prepared.language_data_map |->
                IF tasks # <<>>
                THEN PyIndex(results, prepared.language_data_map[l].task_index)
                ELSE prepared.language_data_map[l].summary_result]
        overall_summary_result ==
            IF overall_task_index # -1 THEN PyIndex(results, overall_task_index)
            ELSE NoTextResult("overall")
    IN  IF fault = "write"
        THEN [NoReport EXCEPT !.generator = "steam", !.returned = "workbook",
                              !.sheets = {"Error"}, !.messages = 1, !.fault = fault,
                              !.llm_calls = Len(tasks), !.tasks = tasks]
        ELSE [NoReport EXCEPT !.generator = "steam", !.returned = "workbook",
                              !.sheets = {"Summary", "Reviews_All"}
                                         \cup DOMAIN language_data_map,
                              !.llm_calls = Len(tasks), !.tasks = tasks,
                              !.rows = language_data_map,
                              !.total = overall_summary_result,
                              !.counts = TRUE]

(***************************************************************************)
(* generate_youtube_summary_report(db_session, game_id, start_date,        *)
(* end_date): what it returns.  On an exception the error sheet is written *)
(* to the buffer and None is returned.                                     *)
(***************************************************************************)
generate_youtube_summary_report(fault, feedback_found, influencers) ==
    IF fault # "none"
    THEN [NoReport EXCEPT !.generator = "youtube", !.returned = NoneVal,
                          !.sheets = {"Error"}, !.messages = 1, !.fault = fault]
    ELSE IF ~feedback_found
    THEN StatusWorkbook("youtube")
    ELSE [NoReport EXCEPT !.generator = "youtube", !.returned = "workbook",
                          !.sheets = {"Video Summary List"} \cup influencers,
                          !.counts = TRUE]

\* A caller (the scheduled report, the dashboard) generates the Steam report.
GenerateSummaryReport ==
    /\ pipeline = "report"
    /\ report.pc = "idle"
    /\ \E reviews_found \in BOOLEAN :
       \E distinct_languages \in IF reviews_found THEN LanguageLists ELSE {<<>>} :
       \E kind \in [Languages -> GroupKinds] :
       \E answered \in [1 .. NumLanguages + 1 -> BOOLEAN] :
       \E fault \in IF reviews_found THEN {"none", "schema", "write"} ELSE {"none"} :
         /\ \A l \in Languages :
               (~reviews_found \/ \A i \in DOMAIN distinct_languages :
                                     distinct_languages[i] # l) => kind[l] = "none"
         /\ report' = [generate_summary_report(reviews_found, distinct_languages,
                                               kind, answered, fault)
                         EXCEPT !.pc = "returned"]
    /\ UNCHANGED <<pipeline, steamVars, youtubeVars, api, supa, job, race, drain, sess>>

(***************************************************************************)
(* youtube_slack_reporter.run_youtube_report_and_upload: generates the     *)
(* YouTube report and uploads it when it got bytes.                        *)
(***************************************************************************)
RunYoutubeReportAndUpload ==
    /\ pipeline = "report"
    /\ report.pc = "idle"
    /\ \E fault \in {"none", "query", "write"}, feedback_found \in BOOLEAN :
       \E influencers \in IF fault = "none" /\ feedback_found
                           THEN SUBSET {"influencer_a", "influencer_b"} \ {{}}
                           ELSE {{}} :
       \E upload_ok \in BOOLEAN :
         LET r == generate_youtube_summary_report(fault, feedback_found, influencers)
         IN  report' = [r EXCEPT !.pc = "returned",
                                 !.uploaded = r.returned # NoneVal /\ upload_ok]
    /\ UNCHANGED <<pipeline, steamVars, youtubeVars, api, supa, job, race, drain, sess>>

\* The caller is done with the report.
ReportDone ==
    /\ pipeline = "report"
    /\ report.pc = "returned"
    /\ report' = NoReport
    /\ UNCHANGED <<pipeline, steamVars, youtubeVars, api, supa, job, race, drain, sess>>

(***************************************************************************)
(* The scheduled job entry points, by their try / except structure.        *)
(* run_fetcher and run_youtube_fetcher walk through the tracked entities   *)
(* (apps, channels); the three enrichment jobs have a single body.         *)
(***************************************************************************)
Fetchers == {"run_fetcher", "run_youtube_fetcher"}

EntryPoints == Fetchers \cup {"process_translations", "process_analysis",
                              "run_youtube_analyzer"}

\* database.connection.get_db, up to the first next(): it raises
\* RuntimeError when the engine could not be created at import time.
get_db(engine) == [raised |-> engine = NoneVal]

(***************************************************************************)
(* Where an exception can be raised while one entity is processed:         *)
(* "before_try" is the part of the iteration in front of the entity's own  *)
(* try (run_fetcher: the reads of app.app_id, app.name and                 *)
(* app.last_fetched_timestamp; process_channel: channel.id, channel.handle *)
(* and get_latest_video_upload_timestamp_for_channel), "in_try" the part   *)
(* inside it.                                                              *)
(***************************************************************************)
EntityFaults == {"none", "before_try", "in_try"}

\* One entity's iteration: whether the exception is caught inside the
\* iteration (the loop goes on) or leaves it for the except clause around
\* the loop.
ProcessEntity(fault) ==
    [completed |-> fault = "none", escaped |-> fault = "before_try"]

NoJob == [pc |-> "idle", name |-> "none", next |-> 0, visited |-> {},
          failed |-> {}, summary_logged |-> FALSE]

\* The entry point is called: it takes its database session in front of its
\* try block.
JobStart ==
    /\ pipeline = "jobs"
    /\ job.pc = "idle"
    /\ \E name \in EntryPoints, engine \in {"engine", NoneVal} :
         job' = IF get_db(engine).raised
                THEN [NoJob EXCEPT !.pc = "raised", !.name = name]
                ELSE [NoJob EXCEPT !.pc = "running", !.name = name, !.next = 1]
    /\ UNCHANGED <<pipeline, steamVars, youtubeVars, api, supa, report, race, drain, sess>>

\* A fetcher processes its next entity; an exception that escapes the
\* iteration is logged by the except clause around the loop, which ends it.
JobEntity ==
    /\ pipeline = "jobs"
    /\ job.pc = "running" /\ job.name \in Fetchers
    /\ \E fault \in EntityFaults :
         LET r == ProcessEntity(fault)
             j == [job EXCEPT !.visited = @ \cup {job.next},
                              !.failed = IF r.completed THEN @ ELSE @ \cup {job.next},
                              !.next = @ + 1]
         IN  job' = IF r.escaped \/ job.next = NumEntities
                    THEN [j EXCEPT !.pc = "returned", !.summary_logged = TRUE]
                    ELSE j
    /\ UNCHANGED <<pipeline, steamVars, youtubeVars, api, supa, report, race, drain, sess>>

\* An enrichment job runs its body inside its try block.
JobBody ==
    /\ pipeline = "jobs"
    /\ job.pc = "running" /\ job.name \notin Fetchers
    /\ \E fault \in {"none", "in_try"} :
         job' = [job EXCEPT !.pc = "returned", !.summary_logged = TRUE,
                            !.failed = IF fault = "none" THEN @ ELSE {0}]
    /\ UNCHANGED <<pipeline, steamVars, youtubeVars, api, supa, report, race, drain, sess>>

\* The scheduler has the outcome of the job.
JobEnd ==
    /\ pipeline = "jobs"
    /\ job.pc \in {"returned", "raised"}
    /\ job' = NoJob
    /\ UNCHANGED <<pipeline, steamVars, youtubeVars, api, supa, report, race, drain, sess>>

(***************************************************************************)
(* Two runs of run_fetcher for the same app that overlap in time (a run    *)
(* started by the scheduler while the previous one is still paging): each  *)
(* run is the one iteration of the for-loop for the app, in three steps:   *)
(* the read of app.last_fetched_timestamp (line 47), fetch_reviews (lines  *)
(* 54-58), and the insert with the update of the mark (lines 103-113).     *)
(* Nothing in the repository serialises two runs.                          *)
(***************************************************************************)
FetcherRuns == 1 .. NumRuns

NoRace ==
    [published |-> 0, last_fetched_timestamp |-> 0,
     reviews |-> [i \in ReviewIds |-> NoRow],
     runs |-> [p \in FetcherRuns |->
                 [pc |-> "idle", last_fetch |-> 0, new_reviews |-> <<>>,
                  highest_ts_in_run |-> 0]]]

\* The source publishes one more review.
OverlapPublish ==
    /\ pipeline = "overlap"
    /\ race.published < NumReviews
    /\ race' = [race EXCEPT !.published = @ + 1]
    /\ UNCHANGED <<pipeline, steamVars, youtubeVars, api, supa, report, job, drain, sess>>

\* last_fetch = app.last_fetched_timestamp or 0
OverlapRead ==
    /\ pipeline = "overlap"
    /\ \E p \in FetcherRuns :
         /\ race.runs[p].pc = "idle"
         /\ race' = [race EXCEPT !.runs[p].pc = "read",
                                  !.runs[p].last_fetch = race.last_fetched_timestamp]
    /\ UNCHANGED <<pipeline, steamVars, youtubeVars, api, supa, report, job, drain, sess>>

\* new_reviews, highest_ts_in_run, _ = steam_api.fetch_reviews(...)
OverlapFetch ==
    /\ pipeline = "overlap"
    /\ \E p \in FetcherRuns, fail_at \in 0 .. 1 :
         /\ race.runs[p].pc = "read"
         /\ LET fetched == fetch_reviews(race.published, PageSize, fail_at,
                                         race.runs[p].last_fetch)
            IN  race' = [race EXCEPT !.runs[p].pc = "fetched",
                                     !.runs[p].new_reviews = fetched.reviews,
                                     !.runs[p].highest_ts_in_run = fetched.highest]
    /\ UNCHANGED <<pipeline, steamVars, youtubeVars, api, supa, report, job, drain, sess>>

\* Steps 3.3 and 3.4 on the rows and the mark as they are at that moment.
OverlapStore ==
    /\ pipeline = "overlap"
    /\ \E p \in FetcherRuns, insert_ok \in BOOLEAN, update_ok \in BOOLEAN :
         /\ race.runs[p].pc = "fetched"
         /\ LET fetched == [reviews |-> race.runs[p].new_reviews,
                            highest |-> race.runs[p].highest_ts_in_run]
                out == StoreAndAdvance(race.reviews, race.last_fetched_timestamp,
                                       race.runs[p].last_fetch, fetched,
                                       insert_ok, update_ok)
            IN  race' = [race EXCEPT !.runs[p].pc = "done",
                                     !.reviews = out.db,
                                     !.last_fetched_timestamp = out.mark]
    /\ UNCHANGED <<pipeline, steamVars, youtubeVars, api, supa, report, job, drain, sess>>

(***************************************************************************)
(* The while-loop of process_translations and process_analysis on its own, *)
(* without the totals it logs: the batch query, the workers of the batch   *)
(* and the test at the foot of the loop.  The table holds any backlog of   *)
(* the storable reviews, as the fetcher or an earlier translation left     *)
(* them.                                                                   *)
(***************************************************************************)
Storable == {i \in ReviewIds : ~ViolatesConstraint(insert_dict(i))}

\* The row of review i after a successful translation.
TranslatedRow(i) ==
    [insert_dict(i) EXCEPT !.english_translation = AnswerText,
                           !.translation_status = "translated"]

Backlogs ==
    {db \in [ReviewIds -> {NoRow} \cup {insert_dict(i) : i \in Storable}
                                  \cup {TranslatedRow(i) : i \in Storable}] :
        \A i \in ReviewIds :
            \/ db[i] = NoRow
            \/ i \in Storable /\ db[i] = insert_dict(i)
            \/ /\ i \in Storable /\ Language(i) # "english"
               /\ ~IsBlank(ReviewText(i)) /\ db[i] = TranslatedRow(i)}

NoDrain ==
    [name |-> "none", pc |-> "idle", reviews |-> [i \in ReviewIds |-> NoRow],
     batch |-> {}, size |-> 0, translation_cache |-> {}]

\* The job is started on a backlog.
DrainStart ==
    /\ pipeline = "drain"
    /\ drain.pc = "idle"
    /\ \E name \in {"translate", "analyze"}, db \in Backlogs :
         drain' = [NoDrain EXCEPT !.name = name, !.pc = "query", !.reviews = db]
    /\ UNCHANGED <<pipeline, steamVars, youtubeVars, api, supa, report, job, race, sess>>

\* The head of the while-loop: the batch query; an empty result is the break.
DrainQuery ==
    /\ pipeline = "drain"
    /\ drain.pc = "query"
    /\ \E query_ok \in BOOLEAN :
         LET rows == IF query_ok THEN Selectable(drain.name, drain.reviews) ELSE {} IN
         IF rows = {}
         THEN drain' = [drain EXCEPT !.pc = "done", !.batch = {}, !.size = 0]
         ELSE \E b \in Limited(rows, BATCH_SIZE) :
                drain' = [drain EXCEPT !.pc = "work", !.batch = b,
                                       !.size = Cardinality(b)]
    /\ UNCHANGED <<pipeline, steamVars, youtubeVars, api, supa, report, job, race, sess>>

\* One worker of the batch: _process_single_translation or
\* _process_single_analysis, with its status write.
DrainItem ==
    /\ pipeline = "drain"
    /\ drain.pc = "work"
    /\ \E i \in drain.batch, endpoint \in LLMOutcomes, db_ok \in BOOLEAN :
         LET review == drain.reviews[i]
             t == translate_review_text(review.original_review_text,
                                        review.original_language,
                                        drain.translation_cache, endpoint)
             text_to_analyze == TextToAnalyze(review)
             a == IF IsBlank(text_to_analyze)
                  THEN [error |-> "No text available", sentiment |-> NoneVal,
                        called |-> FALSE, call_failed |-> FALSE]
                  ELSE analyze_review_text(text_to_analyze, endpoint)
             status == IF IsBlank(text_to_analyze) THEN "failed" ELSE AnalysisStatus(a)
         IN  IF drain.name = "translate"
             THEN drain' = [drain EXCEPT
                              !.reviews = update_review_translation(
                                              drain.reviews, i, t.result,
                                              TranslationStatus(t.result), db_ok),
                              !.translation_cache = t.cache,
                              !.batch = @ \ {i}]
             ELSE drain' = [drain EXCEPT
                              !.reviews = update_review_analysis(
                                              drain.reviews, i, a.sentiment, status, db_ok),
                              !.batch = @ \ {i}]
    /\ UNCHANGED <<pipeline, steamVars, youtubeVars, api, supa, report, job, race, sess>>

\* The foot of the while-loop.
DrainEndBatch ==
    /\ pipeline = "drain"
    /\ drain.pc = "work" /\ drain.batch = {}
    /\ drain' = [drain EXCEPT !.pc = IF PartialBatch(drain.size) THEN "done" ELSE "query"]
    /\ UNCHANGED <<pipeline, steamVars, youtubeVars, api, supa, report, job, race, sess>>

(***************************************************************************)
(* The database sessions of one batch.  A session is an object made by     *)
(* SessionLocal() (directly, or inside get_db); sessions are numbered in   *)
(* the order in which they are made.  The dispatcher (process_translations,*)
(* process_analysis, process_channel) holds the session it queries with    *)
(* and submits one worker per item to the thread pool; ops is the record   *)
(* of which thread executed a statement on which session.                  *)
(***************************************************************************)
WorkerKinds ==
    {"_process_single_translation", "_process_single_analysis", "_process_single_video"}

Workers == 1 .. BATCH_SIZE

\* The thread of the dispatcher; the workers' threads are numbered from 1.
MainThread == 0

\* db: Optional[Session] = None
NoSession == 0

\* _process_single_video makes its session inside its try block (line 62);
\* the review workers make it before the try (run_translator.py 63-64,
\* run_analyzer.py 60 and 79).
OpenInsideTry(kind) == kind = "_process_single_video"

\* A worker that is handed the session of its dispatcher.
SharedSession(dispatcher_db, fresh) == dispatcher_db

\* thread_db = SessionLocal() / next(get_db()) / db = SessionLocal(): the
\* session a worker works on is the one it has just made.
SessionForWorker(dispatcher_db, fresh) == fresh

\* finally: thread_db.close() / next(db_session_gen) / if db: db.close()
ClosedInFinally(open, thread_db) ==
    IF thread_db = NoSession THEN open ELSE open \ {thread_db}

NoWorker == [pc |-> "none", thread_db |-> NoSession, exit |-> NoneVal]

NoSess ==
    [kind |-> "none", pc |-> "idle", db |-> NoSession, made |-> 0, open |-> {},
     ops |-> {}, workers |-> [w \in Workers |-> NoWorker]]

\* The dispatcher gets its session, runs its query and submits the workers.
SessionsStart ==
    /\ pipeline = "sessions"
    /\ sess.pc = "idle"
    /\ \E kind \in WorkerKinds :
         sess' = [NoSess EXCEPT
                    !.kind = kind, !.pc = "batch", !.db = 1, !.made = 1, !.open = {1},
                    !.ops = {[thread |-> MainThread, session |-> 1]},
                    !.workers = [w \in Workers |-> [NoWorker EXCEPT !.pc = "submitted"]]]
    /\ UNCHANGED <<pipeline, steamVars, youtubeVars, api, supa, report, job, race, drain>>

\* A worker makes its session; the factory may raise (no engine).  Raised
\* before the try, the exception leaves the worker; raised inside the try
\* (video worker), it is caught and the finally finds db = None.
SessionsWorkerOpen ==
    /\ pipeline = "sessions"
    /\ sess.pc = "batch"
    /\ \E w \in Workers, made_ok \in BOOLEAN :
         /\ sess.workers[w].pc = "submitted"
         /\ IF made_ok
            THEN LET fresh == sess.made + 1 IN
                 sess' = [sess EXCEPT
                            !.made = fresh, !.open = @ \cup {fresh},
                            !.workers[w].pc = "in_try",
                            !.workers[w].thread_db = SessionForWorker(sess.db, fresh)]
            ELSE sess' = [sess EXCEPT
                            !.workers[w].pc = IF OpenInsideTry(sess.kind)
                                              THEN "finally" ELSE "finished",
                            !.workers[w].exit = IF OpenInsideTry(sess.kind)
                                                THEN "return" ELSE "exception"]
    /\ UNCHANGED <<pipeline, steamVars, youtubeVars, api, supa, report, job, race, drain>>

\* The body of the try: the crud calls on the worker's session; it ends with
\* a return, or with an exception that the except clause turns into a return.
SessionsWorkerBody ==
    /\ pipeline = "sessions"
    /\ sess.pc = "batch"
    /\ \E w \in Workers, exit \in {"return", "except"} :
         /\ sess.workers[w].pc = "in_try"
         /\ sess' = [sess EXCEPT
                       !.ops = @ \cup {[thread |-> w,
                                         session |-> sess.workers[w].thread_db]},
                       !.workers[w].pc = "finally",
                       !.workers[w].exit = exit]
    /\ UNCHANGED <<pipeline, steamVars, youtubeVars, api, supa, report, job, race, drain>>

\* The finally clause of the worker, on every way out of the try.
SessionsWorkerFinally ==
    /\ pipeline = "sessions"
    /\ sess.pc = "batch"
    /\ \E w \in Workers :
         /\ sess.workers[w].pc = "finally"
         /\ sess' = [sess EXCEPT
                       !.open = ClosedInFinally(@, sess.workers[w].thread_db),
                       !.workers[w].pc = "finished"]
    /\ UNCHANGED <<pipeline, steamVars, youtubeVars, api, supa, report, job, race, drain>>

\* The with-block of the executor is left when every worker has finished;
\* the dispatcher goes on with its own session (next query, or
\* update_channel_timestamp).
SessionsEnd ==
    /\ pipeline = "sessions"
    /\ sess.pc = "batch"
    /\ \A w \in Workers : sess.workers[w].pc = "finished"
    /\ sess' = [sess EXCEPT !.pc = "done",
                            !.ops = @ \cup {[thread |-> MainThread, session |-> sess.db]}]
    /\ UNCHANGED <<pipeline, steamVars, youtubeVars, api, supa, report, job, race, drain>>

Init ==
    /\ pipeline \in {"steam", "youtube", "openai", "supadata", "report",
                     "jobs", "overlap", "drain", "sessions"}
    /\ published = 0
    /\ last_fetched_timestamp = 0
    /\ reviews = [i \in ReviewIds |-> NoRow]
    /\ cycle = NoCycle
    /\ translation_cache = {}
    /\ run = NoRun
    /\ batch_log = NoLog
    /\ now = 1
    /\ channel_handle \in IF pipeline = "youtube" THEN {"@handle", NoneVal}
                                                 ELSE {"@handle"}
    /\ last_checked_timestamp = 0
    /\ videos = [v \in VideoIds |-> NoRow]
    /\ video_transcripts = {}
    /\ chan = NoChan
    /\ yrun = NoYRun
    /\ api = NoApi
    /\ supa = NoSupa
    /\ report = NoReport
    /\ job = NoJob
    /\ race = NoRace
    /\ drain = NoDrain
    /\ sess = NoSess

Next ==
    \/ PublishReview
    \/ RunFetcherApp
    \/ StartRun
    \/ QueryBatch
    \/ TranslateItem
    \/ AnalyzeItem
    \/ EndBatch
    \/ FetcherReturn
    \/ RunReturn
    \/ Tick
    \/ ProcessChannelStart
    \/ ProcessVideo
    \/ ProcessChannelFinish
    \/ ProcessChannelReturn
    \/ YoutubeAnalyzerStart
    \/ YoutubeAnalyzeVideo
    \/ YoutubeAnalyzerReturn
    \/ ApiCall
    \/ ApiAttempt
    \/ ApiReturn
    \/ SupadataRequest
    \/ SupadataAttempt
    \/ SupadataReturn
    \/ GenerateSummaryReport
    \/ RunYoutubeReportAndUpload
    \/ ReportDone
    \/ JobStart
    \/ JobEntity
    \/ JobBody
    \/ JobEnd
    \/ OverlapPublish
    \/ OverlapRead
    \/ OverlapFetch
    \/ OverlapStore
    \/ DrainStart
    \/ DrainQuery
    \/ DrainItem
    \/ DrainEndBatch
    \/ SessionsStart
    \/ SessionsWorkerOpen
    \/ SessionsWorkerBody
    \/ SessionsWorkerFinally
    \/ SessionsEnd

Spec == Init /\ [][Next]_vars

(***************************************************************************)
(* The same behaviours when the job in progress is never suspended for     *)
(* ever: the dispatcher thread goes on to its next statement and the       *)
(* thread pool runs every submitted worker.  What the database and the     *)
(* model endpoint answer stays free.                                       *)
(***************************************************************************)
LiveSpec ==
    /\ Spec
    /\ WF_vars(DrainQuery) /\ WF_vars(DrainItem) /\ WF_vars(DrainEndBatch)

(***************************************************************************)
(* Properties.                                                             *)
(***************************************************************************)
StoredReviews == {i \in ReviewIds : reviews[i] # NoRow}

StoredVideos == {v \in VideoIds : videos[v] # NoRow}

\* Position in the newest-first list of n reviews of the first review with
\* a timestamp <= T; n + 1 when there is none.
FirstOld(n, T) ==
    IF \E k \in 1 .. n : Stamp(n - k + 1) <= T
    THEN CHOOSE k \in 1 .. n :
            /\ Stamp(n - k + 1) <= T
            /\ \A j \in 1 .. k - 1 : Stamp(n - j + 1) > T
    ELSE n + 1

\* The request (page number) that delivers position k when paging by per_page.
PageOf(k, per_page) == (k + per_page - 1) \div per_page

(***************************************************************************)
(* C1.  Across any sequence of process_channel cycles for the channel,     *)
(* including cycles that set the timestamp to now because the listing      *)
(* failed or was empty and later cycles that add videos, the stored        *)
(* last_checked_timestamp never decreases.                                 *)
(***************************************************************************)
C1_ChannelMarkNeverDecreases ==
    [][last_checked_timestamp' >= last_checked_timestamp]_vars

(***************************************************************************)
(* C2.  Across any sequence of run_fetcher cycles for the app, whatever    *)
(* the source returns, last_fetched_timestamp never decreases, and a cycle *)
(* that writes it writes a value strictly greater than the value it read   *)
(* at its start.                                                           *)
(***************************************************************************)
C2_SteamMarkOnlyGrows ==
    [][/\ last_fetched_timestamp' >= last_fetched_timestamp
       /\ (~cycle.ran /\ cycle'.ran /\ cycle'.wrote)
             => /\ cycle'.last_fetch = last_fetched_timestamp
                /\ last_fetched_timestamp' > cycle'.last_fetch
       /\ (~cycle.ran /\ cycle'.ran /\ ~cycle'.wrote)
             => last_fetched_timestamp' = last_fetched_timestamp]_vars

\* A cycle that started from a mark already set has written a new one.
C2_Witness == cycle.ran /\ cycle.wrote /\ cycle.last_fetch > 0

(***************************************************************************)
(* C3.  Whenever a fetch cycle advances the mark to a value other than     *)
(* now, the new value is at most the greatest source timestamp of an item  *)
(* that is stored after the cycle's persist step: a failed bulk insert     *)
(* (Steam) or a failed add_video (YouTube) does not advance the mark.      *)
(***************************************************************************)
C3_MarkWithinStored ==
    /\ (cycle.ran /\ cycle.wrote)
          => last_fetched_timestamp <= SetMax({Stamp(i) : i \in StoredReviews})
    /\ (chan.pc = "finished" /\ chan.wrote /\ ~chan.forced_now)
          => last_checked_timestamp
                <= get_latest_video_upload_timestamp_for_channel(videos)

(***************************************************************************)
(* C4.  If a page request fails after at least one earlier page of the     *)
(* same cycle was consumed (and the insert itself did not fail), then      *)
(* after the cycle every source review with a timestamp above the old mark *)
(* and at most the new mark is stored: the mark does not pass reviews on   *)
(* pages that were never fetched.                                          *)
(***************************************************************************)
C4_PageFailureKeepsMark ==
    (cycle.ran /\ cycle.failed /\ cycle.requests > 1 /\ ~cycle.insert_error)
       => \A i \in 1 .. published :
             (Stamp(i) > cycle.last_fetch /\ Stamp(i) <= last_fetched_timestamp)
                => i \in StoredReviews

(***************************************************************************)
(* C5.  In a cycle with cutoff T no review with timestamp_created <= T is  *)
(* handed to the persister; what is handed is the newest-first list up to  *)
(* (not including) the first such review, and no page after the one        *)
(* holding that review is requested.  For T = 1000 and one page with the   *)
(* timestamps 1200, 1100, 1000, 900 exactly the reviews 1200 and 1100 are  *)
(* persisted and the new position is 1200.                                 *)
(***************************************************************************)
C5_CutoffStopsFetch ==
    cycle.ran =>
       LET T == cycle.last_fetch
           stop == FirstOld(published, T)
           fresh == SubSeq(NewestFirst(published), 1, stop - 1)
       IN  /\ \A k \in 1 .. Len(cycle.handed) : Stamp(cycle.handed[k]) > T
           /\ Len(cycle.handed) <= Len(fresh)
           /\ cycle.handed = SubSeq(fresh, 1, Len(cycle.handed))
           /\ ~cycle.failed => cycle.handed = fresh
           /\ stop <= published => cycle.requests <= PageOf(stop, cycle.per_page)
           /\ (~cycle.failed /\ stop <= published)
                 => cycle.requests = PageOf(stop, cycle.per_page)
           /\ (/\ T = 1000 /\ published = 4 /\ cycle.per_page = 4
               /\ ~cycle.failed /\ ~cycle.insert_error /\ ~cycle.update_error)
                 => /\ cycle.handed = <<4, 3>>
                    /\ cycle.requests = 1
                    /\ {i \in StoredReviews : Stamp(i) > T} = {3, 4}
                    /\ last_fetched_timestamp = 1200

\* The cycle of the example: cutoff 1000, one page 1200, 1100, 1000, 900.
C5_Witness ==
    /\ cycle.ran /\ cycle.last_fetch = 1000 /\ published = 4 /\ cycle.per_page = 4
    /\ ~cycle.failed /\ ~cycle.insert_error /\ ~cycle.update_error
    /\ cycle.handed = <<4, 3>>
    /\ last_fetched_timestamp = 1200

\* The batches run_fetcher can hand to add_reviews_bulk and the database
\* accepts: runs of the newest-first list of the published reviews without a
\* row that violates a constraint.
Batches ==
    {r \in {[k \in 1 .. (b - a + 1) |->
                insert_dict(NewestFirst(published)[a + k - 1])] :
             a \in 1 .. published, b \in 1 .. published} :
        /\ r # <<>>
        /\ \A k \in 1 .. Len(r) : ~ViolatesConstraint(r[k])}

(***************************************************************************)
(* C6.  Persisting is idempotent.  A fetch cycle (add_reviews_bulk) and a  *)
(* video worker (_process_single_video, add_video) leave every row that    *)
(* already exists exactly as it is, including what enrichment wrote into   *)
(* it; and after a cycle, persisting any batch once more, or twice, leaves *)
(* the stored rows as they are and gives the same table as persisting it   *)
(* once, persisting the cycle's own batch and then any batch gives the     *)
(* same table as persisting the two together, and adding a stored video    *)
(* again changes nothing.                                                  *)
(***************************************************************************)
C6_PersistIdempotent ==
    [][/\ (~cycle.ran /\ cycle'.ran)
             => \A i \in StoredReviews : reviews'[i] = reviews[i]
       /\ (chan.pc = "videos" /\ chan'.pending # chan.pending)
             => \A v \in StoredVideos : videos'[v] = videos[v]
       /\ (cycle.ran /\ ~cycle'.ran)
             => \A b \in Batches :
                \A once \in {add_reviews_bulk(reviews, b, TRUE).db} :
                   /\ add_reviews_bulk(once, b, TRUE).db = once
                   /\ \A i \in StoredReviews : once[i] = reviews[i]
                   /\ (cycle.handed # <<>> /\ ~cycle.insert_error)
                         => \A handed \in {[k \in 1 .. Len(cycle.handed) |->
                                               insert_dict(cycle.handed[k])]} :
                               /\ add_reviews_bulk(reviews, handed, TRUE).db = reviews
                               /\ once = add_reviews_bulk(reviews, handed \o b, TRUE).db
       /\ (chan.pc = "finished" /\ chan'.pc = "idle")
             => \A v \in StoredVideos :
                   /\ add_video(videos, v, Upload(v), TRUE).db = videos
                   /\ add_video(videos, v, Upload(v), TRUE).added]_vars

\* A cycle was handed, and stored without error, a batch holding a review
\* that a translation run had already finished.
C6_Witness ==
    /\ cycle.ran /\ ~cycle.insert_error
    /\ \E k \in 1 .. Len(cycle.handed) :
          /\ cycle.handed[k] \in StoredReviews
          /\ reviews[cycle.handed[k]].translation_status
                \in {"translated", "skipped", "failed"}

(***************************************************************************)
(* C7.  add_reviews_bulk does not raise on a duplicate recommendationid,   *)
(* and it raises to its caller on a genuine constraint violation (a        *)
(* missing required field), so that the cycle aborts instead of going on   *)
(* as if the batch had been stored.                                        *)
(***************************************************************************)
C7_ConstraintViolationAborts ==
    /\ (cycle.ran /\ ~cycle.insert_error) => ~cycle.aborted
    /\ (cycle.ran /\ \E k \in 1 .. Len(cycle.handed) :
                        ViolatesConstraint(insert_dict(cycle.handed[k])))
          => cycle.aborted /\ ~cycle.wrote

\* The items of the finished batch whose external call raised.
Raised == {i \in DOMAIN batch_log : batch_log[i].call_failed}

\* The status column the running job writes.
StatusOf(i) ==
    IF run.name = "translate" THEN reviews[i].translation_status
    ELSE reviews[i].analysis_status

BatchFinished == run.pc = "work" /\ run.batch = {} /\ run.size > 0

(***************************************************************************)
(* C8.  In a batch of N pending reviews in which exactly one item's        *)
(* external call raises (no other item fails on its own account and the    *)
(* database takes the updates), all N rows end the batch with a            *)
(* non-pending status, every row carries the status its own worker         *)
(* computed, the item whose call raised is failed, and the counts report   *)
(* exactly one failure.                                                    *)
(***************************************************************************)
C8_OneRaiseOneFailure ==
    (/\ BatchFinished
     /\ Cardinality(Raised) = 1
     /\ \A i \in DOMAIN batch_log : batch_log[i].db_ok
     /\ \A j \in DOMAIN batch_log \ Raised : batch_log[j].status # "failed")
       => /\ DOMAIN batch_log = {i \in ReviewIds : i \in DOMAIN batch_log}
          /\ Cardinality(DOMAIN batch_log) = run.size
          /\ \A i \in DOMAIN batch_log :
                /\ StatusOf(i) # "pending"
                /\ StatusOf(i) = batch_log[i].status
          /\ \A k \in Raised : StatusOf(k) = "failed"
          /\ Cardinality({i \in DOMAIN batch_log : StatusOf(i) = "failed"}) = 1
          /\ run.rounds = 1
                => /\ run.total_failed_count = 1
                   /\ run.total_processed_count + run.total_skipped_count
                         = run.size - 1

\* A translation batch of two in which one call raised and the other item
\* was translated.
C8_Witness ==
    /\ BatchFinished /\ run.name = "translate" /\ run.size = 2
    /\ Cardinality(Raised) = 1
    /\ \A i \in DOMAIN batch_log : batch_log[i].db_ok
    /\ \E j \in DOMAIN batch_log \ Raised : StatusOf(j) = "translated"
    /\ run.total_failed_count = 1

(***************************************************************************)
(* C9.  Under any sequence of fetch cycles (re-delivery of stored items    *)
(* included) and enrichment runs no row disappears, a review's             *)
(* translation_status and analysis_status and a video's transcript_status  *)
(* and analysis_status never go from a terminal value back to pending, and *)
(* an enrichment worker whose update reaches the database leaves a         *)
(* terminal value.                                                         *)
(***************************************************************************)
C9_NoReturnToPending ==
    [][/\ \A i \in StoredReviews :
             /\ reviews'[i] # NoRow
             /\ reviews[i].translation_status # "pending"
                   => reviews'[i].translation_status # "pending"
             /\ reviews[i].analysis_status # "pending"
                   => reviews'[i].analysis_status # "pending"
       /\ \A v \in StoredVideos :
             /\ videos'[v] # NoRow
             /\ videos[v].transcript_status # "pending"
                   => videos'[v].transcript_status # "pending"
             /\ videos[v].analysis_status # "pending"
                   => videos'[v].analysis_status # "pending"
       /\ \A i \in DOMAIN batch_log' \ DOMAIN batch_log :
             batch_log'[i].db_ok
                => IF run.name = "translate"
                   THEN reviews'[i].translation_status # "pending"
                   ELSE reviews'[i].analysis_status # "pending"]_vars

\* A cycle was handed a stored review whose analysis was already terminal.
C9_Witness ==
    /\ cycle.ran
    /\ \E k \in 1 .. Len(cycle.handed) :
          /\ cycle.handed[k] \in StoredReviews
          /\ reviews[cycle.handed[k]].analysis_status # "pending"

(***************************************************************************)
(* C10.  A pending non-English review whose original_review_text is empty  *)
(* or blank ends the translation run with translation_status failed, and   *)
(* no LLM call is made for it.                                             *)
(***************************************************************************)
C10_BlankTextFails ==
    \A i \in DOMAIN batch_log :
       (/\ run.name = "translate"
        /\ IsBlank(reviews[i].original_review_text)
        /\ batch_log[i].db_ok)
          => /\ reviews[i].translation_status = "failed"
             /\ ~batch_log[i].called

(***************************************************************************)
(* C11.  Whenever the model's reply to the request made for a review is a  *)
(* refusal ("[REFUSAL ..."), the run that made the request gives the       *)
(* review the status skipped, in translation_status for a translation run  *)
(* and in analysis_status for an analysis run, never failed, and counts    *)
(* the review in total_skipped_count.                                      *)
(***************************************************************************)
C11_RefusalIsSkipped ==
    /\ \A i \in DOMAIN batch_log :
          batch_log[i].refused => batch_log[i].status = "skipped"
    /\ Cardinality({i \in DOMAIN batch_log : batch_log[i].refused})
          <= run.total_skipped_count

\* The translation half on its own: it holds.
C11_TranslationRefusalIsSkipped ==
    run.name = "translate" => C11_RefusalIsSkipped

(***************************************************************************)
(* C12.  When the model refuses the analysis request made for a video's    *)
(* transcript, the video's analysis_status is recorded as skipped and not  *)
(* as failed (it is still pending only if the status write itself failed). *)
(***************************************************************************)
C12_VideoRefusalIsSkipped ==
    \A v \in yrun.refused : videos[v].analysis_status \in {"skipped", "pending"}

\* The outcomes of the requests of the finished call that were errors worth
\* another attempt.
TransientErrors ==
    {"APITimeoutError", "APIConnectionError", "RateLimitError", "APIStatusError5xx"}

(***************************************************************************)
(* C13.  A call of call_openai_api or acall_openai_api whose request hits  *)
(* a transient error (timeout, connection error, rate limit, 5xx) makes    *)
(* the request again, up to 3 attempts in total, before None is returned;  *)
(* a 4xx error other than a rate limit gets exactly one attempt.  So a     *)
(* finished call has made a request after every transient error but the    *)
(* third, and none after any other outcome.                                *)
(***************************************************************************)
C13_TransientErrorsRetried ==
    api.pc = "done" =>
        LET n == Len(api.outcomes) IN
        /\ n <= 3
        /\ \A k \in 1 .. n - 1 : api.outcomes[k] \in TransientErrors
        /\ api.outcomes[n] \in TransientErrors => n = 3
        /\ api.outcomes[n] \in ServiceErrors => api.value = NoneVal /\ api.raised = NoneVal

\* The failures of a Supadata request that are transient: a timeout or
\* connection error, an HTTP 429 and an HTTP 5xx.
TransientHttp == {"RequestException", "429", "5xx"}

(***************************************************************************)
(* C14.  SupadataClient._request attempts the request again exactly when   *)
(* the failure is transient (timeout or connection error, HTTP 429, HTTP   *)
(* 5xx), as long as attempts are left; any other 4xx response ends the     *)
(* call with None after a single attempt.                                  *)
(***************************************************************************)
C14_RetryExactlyWhenTransient ==
    supa.pc = "done" /\ supa.outcomes # <<>> =>
        LET n == Len(supa.outcomes) IN
        /\ \A k \in 1 .. n - 1 : supa.outcomes[k] \in TransientHttp \cup {"bad_json"}
        /\ supa.outcomes[n] \in TransientHttp => n = MAX_RETRIES + 1
        /\ supa.outcomes[n] = "4xx" => n = 1 /\ supa.value = NoneVal

(***************************************************************************)
(* C15.  When process_translations (process_analysis) has left its loop    *)
(* and no review was inserted since it started, no review is selectable    *)
(* by get_reviews_needing_translation (get_reviews_needing_analysis):      *)
(* the whole backlog has reached a terminal status.                        *)
(***************************************************************************)
C15_BacklogDrained ==
    run.pc = "done" => Selectable(run.name, reviews) = {}

\* C15 as it holds: the same, for a run in which no batch query and no
\* status write failed (run.faulted records such a failure).
C15_BacklogDrainedWithoutFaults ==
    (run.pc = "done" /\ ~run.faulted) => Selectable(run.name, reviews) = {}

\* A run without such a failure has drained a backlog of more than one batch.
C15_Witness ==
    /\ run.pc = "done" /\ ~run.faulted
    /\ run.rounds >= 2
    /\ run.total_processed_count + run.total_failed_count + run.total_skipped_count
          > BATCH_SIZE

(***************************************************************************)
(* C16.  For a window without matching items, generate_summary_report and  *)
(* generate_youtube_summary_report each return a non-empty workbook that   *)
(* consists of the single sheet Status with one no-data message; no LLM    *)
(* call is made and no exception is raised.                                *)
(***************************************************************************)
C16_EmptyWindowStatusSheet ==
    (report.pc = "returned" /\ report.empty_window) =>
        /\ report.returned = "workbook"
        /\ report.sheets = {"Status"}
        /\ report.messages = 1
        /\ report.llm_calls = 0
        /\ ~report.raised

\* The Steam generator has returned the report of an empty window.
C16_Witness ==
    report.pc = "returned" /\ report.empty_window /\ report.generator = "steam"

(***************************************************************************)
(* C17.  In the report generate_summary_report renders, the AI-summary     *)
(* cells of every language group that had a summary task hold the result   *)
(* of the task built from that group's reviews, and the Total / All row    *)
(* holds the result of the overall task (so that a failed summary shows    *)
(* in its own row only).                                                   *)
(***************************************************************************)
C17_RowsHoldOwnSummaries ==
    (report.pc = "returned" /\ report.generator = "steam" /\ report.counts) =>
        /\ \A l \in DOMAIN report.rows :
              (\E t \in DOMAIN report.tasks : report.tasks[t] = l)
                 => report.rows[l].task /\ report.rows[l].context = l
        /\ (\E t \in DOMAIN report.tasks : report.tasks[t] = "overall")
              => report.total.task /\ report.total.context = "overall"

(***************************************************************************)
(* C18.  When an exception occurs inside report generation, the generator  *)
(* (generate_summary_report and generate_youtube_summary_report alike)     *)
(* returns a workbook that contains a sheet Error; it neither raises nor   *)
(* returns nothing.                                                        *)
(***************************************************************************)
C18_ErrorWorkbookReturned ==
    (report.pc = "returned" /\ report.fault # "none") =>
        /\ report.returned = "workbook"
        /\ "Error" \in report.sheets
        /\ ~report.raised

(***************************************************************************)
(* C19.  No exception propagates out of a scheduled job entry point        *)
(* (run_fetcher, process_translations, process_analysis,                   *)
(* run_youtube_fetcher, run_youtube_analyzer): on every path, a failure to *)
(* acquire the database session included, the function returns normally   *)
(* after logging its final summary.                                        *)
(***************************************************************************)
C19_NoExceptionEscapes ==
    /\ job.pc # "raised"
    /\ job.pc = "returned" => job.summary_logged

(***************************************************************************)
(* C20.  Within one fetcher run, a failure while one tracked entity is     *)
(* processed (anywhere in its iteration of run_fetcher, anywhere in its    *)
(* process_channel call) does not keep the remaining entities of the run   *)
(* from being processed: a run that has returned has visited them all.     *)
(***************************************************************************)
C20_FailureDoesNotStopTheRun ==
    (job.pc = "returned" /\ job.name \in Fetchers /\ job.failed # {})
        => job.visited = 1 .. NumEntities

(***************************************************************************)
(* C21: in every reachable state a stored review whose original_language   *)
(* is 'english' has translation_status 'not_required' and an               *)
(* english_translation equal to its original_review_text, whatever fetch,  *)
(* translation and analysis runs have happened.                            *)
(***************************************************************************)
C21_EnglishNeedsNoTranslation ==
    \A i \in StoredReviews :
        reviews[i].original_language = "english"
            => /\ reviews[i].translation_status = "not_required"
               /\ reviews[i].english_translation = reviews[i].original_review_text

\* An English review has been through analysis while another review has been
\* through translation.
C21_Witness ==
    \E i \in StoredReviews, j \in StoredReviews :
        /\ reviews[i].original_language = "english"
        /\ reviews[i].analysis_status # "pending"
        /\ reviews[j].translation_status \in {"translated", "failed", "skipped"}

(***************************************************************************)
(* C22: for a pending review with non-blank analysable text, when the      *)
(* model's reply to the analysis request would be JSON that satisfies the  *)
(* ReviewAnalysisResult schema and the status write succeeds, the worker   *)
(* reaches the model through analyze_review_text and call_openai_api,      *)
(* stores the derived fields and sets analysis_status = analyzed.          *)
(***************************************************************************)
C22_ValidAnswerIsAnalyzed ==
    \A i \in DOMAIN batch_log :
       (/\ run.name = "analyze"
        /\ batch_log[i].answered
        /\ batch_log[i].db_ok)
          => /\ batch_log[i].called
             /\ reviews[i].analysis_status = "analyzed"
             /\ reviews[i].analyzed_sentiment # NoneVal

(***************************************************************************)
(* C23: process_channel sets last_checked_timestamp to the current time    *)
(* exactly when it returns early (no handle, get_channel_videos gave None  *)
(* or an empty list); a cycle that got a non-empty list and added no video *)
(* newer than the latest stored upload leaves it unchanged.  As stated:    *)
(* every early return leaves the current time in the column.               *)
(***************************************************************************)
C23_EarlyReturnSetsNow ==
    [][/\ (chan.pc = "idle" /\ chan'.pc = "finished")
             => last_checked_timestamp' = now
       /\ (chan.pc = "idle" /\ chan'.pc = "videos")
             => /\ channel_handle # NoneVal /\ chan'.pending # {}
                /\ last_checked_timestamp' = last_checked_timestamp
       /\ (chan.pc = "videos" /\ chan'.pc = "finished")
             => IF chan.highest > chan.true_latest
                THEN last_checked_timestamp' \in {last_checked_timestamp, chan.highest}
                ELSE last_checked_timestamp' = last_checked_timestamp]_vars

(***************************************************************************)
(* C23 with the write taken into account: an early return leaves the       *)
(* current time in the column when update_channel_timestamp succeeds and   *)
(* the old value when it fails; the rest as above.                         *)
(***************************************************************************)
C23_EarlyReturnSetsNowIfWritten ==
    [][/\ (chan.pc = "idle" /\ chan'.pc = "finished")
             => last_checked_timestamp' =
                    IF chan'.wrote THEN now ELSE last_checked_timestamp
       /\ (chan.pc = "idle" /\ chan'.pc = "videos")
             => /\ channel_handle # NoneVal /\ chan'.pending # {}
                /\ last_checked_timestamp' = last_checked_timestamp
       /\ (chan.pc = "videos" /\ chan'.pc = "finished")
             => IF chan.highest > chan.true_latest
                THEN last_checked_timestamp' =
                         IF chan'.wrote THEN chan.highest ELSE last_checked_timestamp
                ELSE last_checked_timestamp' = last_checked_timestamp]_vars

\* A cycle with a non-empty listing has finished without adding a video, after
\* an earlier cycle had set the timestamp to a time later than every stored
\* upload.
C23_Witness ==
    /\ chan.pc = "finished" /\ ~chan.forced_now /\ ~chan.wrote
    /\ chan.highest <= chan.true_latest
    /\ last_checked_timestamp > chan.true_latest

(***************************************************************************)
(* C24: in every fetch cycle the cutoff applied to incoming items is       *)
(* max(stored last-known position, now - max-lookback).  For YouTube the   *)
(* position is the channel's last_checked_timestamp as read at the start   *)
(* of process_channel.  For Steam the position is last_fetched_timestamp,  *)
(* the clock is the stamp of the newest published review and the lookback  *)
(* spans MaxAgeTicks publications: no review handed on for storing is at   *)
(* or below that cutoff, even in a first cycle with position 0.            *)
(***************************************************************************)
C24_CutoffIsMaxOfPositionAndLookback ==
    [][/\ (chan.pc = "idle" /\ chan'.pc # "idle")
             => chan'.effective_cutoff_ts =
                    Max(last_checked_timestamp, now - MaxAgeTicks)
       /\ (~cycle.ran /\ cycle'.ran)
             => \A k \in 1 .. Len(cycle'.handed) :
                   Stamp(cycle'.handed[k]) >
                       Max(cycle'.last_fetch, Stamp(published - MaxAgeTicks))]_vars

(***************************************************************************)
(* C25: a video whose metadata request failed in a cycle that added a      *)
(* newer video of the channel is persisted by a later cycle that lists it  *)
(* and gets its metadata: when such a video, still inside the lookback     *)
(* window, is handed to a worker of a later cycle, that cycle's cutoff     *)
(* lets it through (upload_date_ts > effective_cutoff_ts is the only test  *)
(* between a successful metadata request and add_video).                   *)
(***************************************************************************)
C25_FailedVideoStillEligible ==
    \A v \in chan.missed \cap chan.pending :
        (videos[v] = NoRow /\ Upload(v) > now - MaxAgeTicks)
            => Upload(v) > chan.effective_cutoff_ts

(***************************************************************************)
(* C26: when two fetch cycles for the same app overlap (each has read the  *)
(* position before the other wrote), the write of the position by          *)
(* update_last_fetch_time never lowers the value stored at the moment of   *)
(* the write.                                                              *)
(***************************************************************************)
C26_OverlappingWritesNeverLower ==
    [][race'.last_fetched_timestamp >= race.last_fetched_timestamp]_vars

(***************************************************************************)
(* C27: for any finite backlog process_translations and process_analysis   *)
(* terminate, also when status writes fail and the same items come back as *)
(* pending in the next batch query: a started loop reaches its end.        *)
(***************************************************************************)
C27_DrainTerminates ==
    (drain.pc = "query") ~> (drain.pc = "done")

(***************************************************************************)
(* C28: during a batch no database session is used by two threads: every   *)
(* worker (_process_single_translation, _process_single_analysis,          *)
(* _process_single_video) works on a session it made itself, that session  *)
(* is closed when the worker has finished, whether it returned or an       *)
(* exception was raised, and no worker executes anything on the session    *)
(* the dispatcher queries with.                                            *)
(***************************************************************************)
C28_WorkersOwnTheirSessions ==
    /\ \A o \in sess.ops :
          o.thread # MainThread => o.session # sess.db
    /\ \A o1 \in sess.ops, o2 \in sess.ops :
          o1.session = o2.session => o1.thread = o2.thread
    /\ \A w \in Workers :
          /\ sess.workers[w].thread_db # NoSession
                => \A v \in Workers \ {w} :
                      sess.workers[v].thread_db # sess.workers[w].thread_db
          /\ sess.workers[w].pc = "finished"
                => sess.workers[w].thread_db \notin sess.open

\* A batch is over in which one worker left its try through the except
\* clause and another one returned from it, both after working on a session.
C28_Witness ==
    /\ sess.pc = "done"
    /\ \E w \in Workers, v \in Workers :
          /\ sess.workers[w].exit = "except" /\ sess.workers[w].thread_db # NoSession
          /\ sess.workers[v].exit = "return" /\ sess.workers[v].thread_db # NoSession
          /\ [thread |-> w, session |-> sess.workers[w].thread_db] \in sess.ops
          /\ [thread |-> v, session |-> sess.workers[v].thread_db] \in sess.ops

(***************************************************************************)
(* C29: an item left in status failed by a transient error is attempted    *)
(* again by the next scheduled run.  A review whose translation call       *)
(* raised and was written as failed is among the rows the batch query of a *)
(* translation run selects; a stored video whose transcript status is      *)
(* failed is taken up again, not skipped, by the worker of a fetch cycle   *)
(* that lists it while the source answers.                                 *)
(***************************************************************************)
C29_FailedItemsAreRetried ==
    /\ \A i \in DOMAIN batch_log :
          (/\ run.name = "translate"
           /\ batch_log[i].call_failed /\ batch_log[i].db_ok
           /\ reviews[i].translation_status = "failed")
             => i \in get_reviews_needing_translation(reviews)
    /\ \A v \in StoredVideos :
          videos[v].transcript_status = "failed"
             => ProcessSingleVideo(videos, video_transcripts, v, 0, "ok", "text",
                                   TRUE, TRUE, TRUE).status # "skipped"

(***************************************************************************)
(* C30: a review is handed to analysis only when its translation_status is *)
(* translated or not_required; a review whose translation is pending,      *)
(* failed or skipped is never analysed; and the text passed to             *)
(* analyze_review_text is the English translation for a translated review  *)
(* and the raw text for an English one.                                    *)
(***************************************************************************)
C30_AnalysisFollowsTranslation ==
    /\ run.name = "analyze"
          => \A i \in run.batch \cup DOMAIN batch_log :
                /\ reviews[i].translation_status \in {"translated", "not_required"}
                /\ reviews[i].translation_status = "not_required"
                      => reviews[i].original_language = "english"
    /\ run.name = "analyze"
          => \A i \in DOMAIN batch_log :
                batch_log[i].submitted # NoneVal
                   => batch_log[i].submitted =
                         IF reviews[i].translation_status = "translated"
                         THEN reviews[i].english_translation
                         ELSE reviews[i].original_review_text
    /\ \A i \in StoredReviews :
          reviews[i].translation_status \notin {"translated", "not_required"}
             => /\ reviews[i].analysis_status = "pending"
                /\ reviews[i].analyzed_sentiment = NoneVal

\* One batch has handed a translated review and an English review to
\* analyze_review_text.
C30_Witness ==
    /\ run.name = "analyze"
    /\ \E i \in DOMAIN batch_log, j \in DOMAIN batch_log :
          /\ reviews[i].translation_status = "translated"
          /\ batch_log[i].submitted = reviews[i].english_translation
          /\ reviews[j].original_language = "english"
          /\ batch_log[j].submitted = reviews[j].original_review_text
====
